---- MODULE Spec2Model ----
(***************************************************************************)
(* Pupil detection-and-tracking engine of drelsherif/crazyeyes.            *)
(*                                                                         *)
(* The repository holds several revisions of the engine side by side:      *)
(*   "simple"   src/src/hooks/usePupilDetection.js, driven by              *)
(*              src/src/components/VideoPlayer.jsx                         *)
(*   "advanced" src/unnamed/part_001 (usePupilDetection, "Advanced OpenCV  *)
(*              Algorithms"), driven by the same VideoPlayer.jsx           *)
(*   "app"      src/src/App.jsx (the monolithic component)                 *)
(* A behaviour of Spec is a run of one revision, chosen in Init.           *)
(*                                                                         *)
(* Numbers.  JavaScript numbers are modelled as exact rationals            *)
(* [n |-> numerator, d |-> denominator > 0] in lowest terms, plus the      *)
(* non-numbers NaN, Infinity and undefined.  Math.PI is the rational       *)
(* 22/7 and Math.sqrt is exact on squares of rationals and rounded down    *)
(* to a whole number elsewhere.  OpenCV (findContours, moments, minMaxLoc, *)
(* Sobel, HoughCircles) is an oracle: what it returns for an eye region is *)
(* part of the frame's input (a Scene).                                    *)
(***************************************************************************)
EXTENDS Integers, Sequences, FiniteSets, TLC

\* ------------------------------------------------------------------------
\* JavaScript numbers
\* ------------------------------------------------------------------------

NaN == [nan |-> TRUE]

Infinity == [inf |-> TRUE]

Undefined == [undef |-> TRUE]

IsNum(v) == "d" \in DOMAIN v

IAbs(i) == IF i < 0 THEN -i ELSE i

RECURSIVE Gcd(_, _)
Gcd(a, b) == IF b = 0 THEN a ELSE Gcd(b, a % b)

\* n/d with the common factor g of n and d taken out, denominator positive
Lowest(n, d, g) ==
    IF d < 0 THEN [n |-> -(n \div g), d |-> -(d \div g)]
    ELSE [n |-> n \div g, d |-> d \div g]

\* the rational n/d in lowest terms, denominator positive (d # 0)
Rat(n, d) == Lowest(n, d, Gcd(IAbs(n), IAbs(d)))

Int2Num(i) == [n |-> i, d |-> 1]

Zero == Int2Num(0)

One == Int2Num(1)

\* NaN or undefined: what turns every arithmetic result into NaN
IsNaN(a) == ~IsNum(a) /\ a # Infinity

\* the sum of the rationals a and b over their least common denominator, g
\* being the greatest common divisor of the two denominators
SumOver(a, b, g) ==
    Rat(a.n * (b.d \div g) + b.n * (a.d \div g), (a.d \div g) * b.d)

\* a + b (the code never forms -Infinity)
NumAdd(a, b) ==
    IF IsNum(a) /\ IsNum(b) THEN SumOver(a, b, Gcd(a.d, b.d))
    ELSE IF IsNaN(a) \/ IsNaN(b) THEN NaN ELSE Infinity

NumNeg(a) == IF IsNum(a) THEN [n |-> -a.n, d |-> a.d] ELSE NaN

NumSub(a, b) == NumAdd(a, NumNeg(b))

\* the product of the rationals a and b, g1 and g2 being the common factors
\* of a's numerator with b's denominator and of b's numerator with a's
Product(a, b, g1, g2) ==
    Rat((a.n \div g1) * (b.n \div g2), (a.d \div g2) * (b.d \div g1))

\* a * b; Infinity times a positive number is Infinity, Infinity * 0 is NaN
NumMul(a, b) ==
    IF IsNum(a) /\ IsNum(b)
    THEN Product(a, b, Gcd(IAbs(a.n), b.d), Gcd(IAbs(b.n), a.d))
    ELSE IF IsNaN(a) \/ IsNaN(b) THEN NaN
    ELSE IF (IsNum(a) /\ a.n <= 0) \/ (IsNum(b) /\ b.n <= 0) THEN NaN
    ELSE Infinity

\* a / b: x/0 is Infinity for x > 0 and NaN for 0/0, as in IEEE arithmetic
\* (the code never divides a negative number by zero); x/Infinity is 0
NumDiv(a, b) ==
    IF IsNum(a) /\ IsNum(b)
    THEN IF b.n = 0
         THEN (IF a.n > 0 THEN Infinity ELSE NaN)
         ELSE NumMul(a, Rat(b.d, b.n))
    ELSE IF IsNum(a) /\ b = Infinity THEN Zero
    ELSE IF a = Infinity /\ IsNum(b) /\ b.n > 0 THEN Infinity
    ELSE NaN

\* a < b for rationals, g being the greatest common divisor of the denominators
Below(a, b, g) == a.n * (b.d \div g) < b.n * (a.d \div g)

\* a < b; every comparison with NaN or undefined is false
NumLt(a, b) ==
    IF IsNum(a) /\ IsNum(b) THEN Below(a, b, Gcd(a.d, b.d))
    ELSE IsNum(a) /\ b = Infinity

NumGt(a, b) == NumLt(b, a)

NumLe(a, b) == NumLt(a, b) \/ (IsNum(a) /\ a = b) \/ (a = Infinity /\ b = Infinity)

NumAbs(a) == IF IsNum(a) THEN [n |-> IAbs(a.n), d |-> a.d] ELSE a

\* Math.max(a, b) and Math.min(a, b): NaN as soon as one argument is NaN
NumMax(a, b) == IF IsNaN(a) \/ IsNaN(b) THEN NaN ELSE IF NumLt(a, b) THEN b ELSE a

NumMin(a, b) == IF IsNaN(a) \/ IsNaN(b) THEN NaN ELSE IF NumLt(b, a) THEN b ELSE a

\* Math.floor on a finite number
NumFloor(a) ==
    IF IsNum(a)
    THEN Int2Num(IF a.n >= 0 THEN a.n \div a.d ELSE -((-a.n + a.d - 1) \div a.d))
    ELSE a

RECURSIVE ISqrtIn(_, _, _)
\* the largest whole r in lo..hi with r*r <= k, by bisection (lo*lo <= k)
ISqrtIn(k, lo, hi) ==
    IF lo >= hi THEN lo
    ELSE LET mid == (lo + hi + 1) \div 2
         IN  IF mid * mid <= k THEN ISqrtIn(k, mid, hi) ELSE ISqrtIn(k, lo, mid - 1)

\* the largest whole r with r*r <= k (k < 2^31, so r < 46341)
ISqrt(k) == ISqrtIn(k, 0, IF k < 46340 THEN k ELSE 46340)

\* the root of the rational a >= 0, rn and rd being the whole roots of its
\* numerator and denominator
Root(a, rn, rd) ==
    IF rn * rn = a.n /\ rd * rd = a.d THEN Rat(rn, rd)
    ELSE Int2Num(ISqrt(a.n \div a.d))

\* Math.sqrt: exact on the square of a rational, rounded down otherwise
NumSqrt(a) ==
    IF IsNum(a)
    THEN IF a.n < 0 THEN NaN ELSE Root(a, ISqrt(a.n), ISqrt(a.d))
    ELSE a

\* Math.PI
PI == Rat(22, 7)

\* JavaScript truthiness of a number: 0 and NaN are falsy
Truthy(a) == IF IsNum(a) THEN a.n # 0 ELSE a = Infinity

\* obj.field of a JavaScript object: undefined when the property is missing
Prop(obj, field) == IF field \in DOMAIN obj THEN obj[field] ELSE Undefined

Null == [null |-> TRUE]

\* ------------------------------------------------------------------------
\* Temporal filters
\* ------------------------------------------------------------------------

\* usePupilDetection.js: new SimpleKalmanFilter(processNoise, measurementNoise)
SimpleKalmanFilter(Q, R) ==
    [Q |-> Q, R |-> R, x |-> Zero, P |-> One, initialized |-> FALSE]

\* usePupilDetection.js: SimpleKalmanFilter.update(measurement); the filter
\* after the call (the call returns its x)
SimpleUpdate(f, measurement) ==
    IF ~f.initialized
    THEN [f EXCEPT !.x = measurement, !.initialized = TRUE]
    ELSE LET Correct(P1, K) ==
                 [f EXCEPT !.x = NumAdd(f.x, NumMul(K, NumSub(measurement, f.x))),
                           !.P = NumMul(P1, NumSub(One, K))]
             Predict(P1) == Correct(P1, NumDiv(P1, NumAdd(P1, f.R)))
         IN  Predict(NumAdd(f.P, f.Q))

\* usePupilDetection.js lines 79-83: the three channels created for an eye
SimpleFilters ==
    [size |-> SimpleKalmanFilter(Rat(2, 10), Rat(10, 10)),
     x |-> SimpleKalmanFilter(Rat(1, 10), Rat(5, 10)),
     y |-> SimpleKalmanFilter(Rat(1, 10), Rat(5, 10))]

\* App.jsx: new KalmanFilter(Q, R)
KalmanFilter(Q, R) == [Q |-> Q, R |-> R, x |-> Zero, P |-> One]

\* App.jsx: KalmanFilter.init(initial_state)
KFInit(f, initial_state) == [f EXCEPT !.x = initial_state, !.P = One]

\* App.jsx: KalmanFilter.predict()
KFPredict(f) == [f EXCEPT !.P = NumAdd(f.P, f.Q)]

\* App.jsx: KalmanFilter.update(measurement)
KFUpdate(f, measurement) ==
    LET Correct(K) ==
            [f EXCEPT !.x = NumAdd(f.x, NumMul(K, NumSub(measurement, f.x))),
                      !.P = NumMul(NumSub(One, K), f.P)]
    IN  Correct(NumDiv(f.P, NumAdd(f.P, f.R)))

\* App.jsx lines 66-71 and 855-860: the six filters, three per eye
AppFilters ==
    [X |-> KalmanFilter(Rat(1, 10), Int2Num(10)),
     Y |-> KalmanFilter(Rat(1, 10), Int2Num(10)),
     Size |-> KalmanFilter(Rat(1, 10), Int2Num(10))]

\* App.jsx lines 417-428 for one channel: init on the first valid detection
\* (estimate still 0 and measurement not 0), then predict, then update
AppChannelStep(f, measurement) ==
    LET f0 == IF f.x = Zero /\ measurement # Zero THEN KFInit(f, measurement) ELSE f
    IN  KFUpdate(KFPredict(f0), measurement)

\* part_001: new AdvancedKalmanFilter(processNoise, measurementNoise); state is
\* [x, y, size, vx, vy, vsize], covariance the diagonal value of 100 * identity
AdvancedKalmanFilter(processNoise, measurementNoise) ==
    [processNoise |-> processNoise, measurementNoise |-> measurementNoise,
     state |-> [i \in 1..6 |-> Zero], covariance |-> Int2Num(100),
     initialized |-> FALSE]

\* part_001: the fixed gain of AdvancedKalmanFilter.update
AdvancedGain == Rat(3, 10)

\* part_001: AdvancedKalmanFilter.update(measurement); it reads measurement.x,
\* measurement.y and measurement.size (dt = 1)
AdvancedUpdate(f, measurement) ==
    LET mx == Prop(measurement, "x")
        my == Prop(measurement, "y")
        ms == Prop(measurement, "size")
        \* position plus gain times innovation; the velocity becomes gain times
        \* innovation
        Correct(p1, p2, p3, i1, i2, i3) ==
            [f EXCEPT !.state =
                <<NumAdd(p1, i1), NumAdd(p2, i2), NumAdd(p3, i3), i1, i2, i3>>]
        Innovate(p1, p2, p3) ==
            Correct(p1, p2, p3, NumMul(AdvancedGain, NumSub(mx, p1)),
                    NumMul(AdvancedGain, NumSub(my, p2)),
                    NumMul(AdvancedGain, NumSub(ms, p3)))
    IN  IF ~f.initialized
        THEN [f EXCEPT !.state = <<mx, my, ms, Zero, Zero, Zero>>,
                       !.initialized = TRUE]
        ELSE Innovate(NumAdd(f.state[1], f.state[4]), NumAdd(f.state[2], f.state[5]),
                      NumAdd(f.state[3], f.state[6]))

\* ------------------------------------------------------------------------
\* Frames, landmarks and what OpenCV finds in an eye region
\* ------------------------------------------------------------------------

Eyes == {"left", "right"}

Modes == {"left", "right", "both"}

OtherEye(eye) == IF eye = "left" THEN "right" ELSE "left"

\* video.videoWidth x video.videoHeight of a frame with pixels
Frame == [width |-> 320, height |-> 240]

\* a landmark: normalized coordinates of the pixel (px, py)
Landmark(px, py) == [x |-> Rat(px, Frame.width), y |-> Rat(py, Frame.height)]

\* pixel position of each iris centre and the iris radius in the frames drawn
IrisGeometry(eye) ==
    IF eye = "left" THEN [cx |-> 100, cy |-> 120, r |-> 40]
                    ELSE [cx |-> 220, cy |-> 120, r |-> 40]

\* the five iris landmarks of an iris of centre (g.cx, g.cy) and radius g.r
IrisLandmarksAt(g) ==
    <<Landmark(g.cx, g.cy), Landmark(g.cx + g.r, g.cy),
      Landmark(g.cx, g.cy - g.r), Landmark(g.cx - g.r, g.cy),
      Landmark(g.cx, g.cy + g.r)>>

\* the extreme eye-contour landmarks of the eye around the iris g
ContourLandmarksAt(g) ==
    <<Landmark(g.cx - 60, g.cy), Landmark(g.cx + 60, g.cy),
      Landmark(g.cx, g.cy - 25), Landmark(g.cx, g.cy + 25)>>

\* landmarks[i] for the five iris indices of an eye (468..472 left, 473..477
\* right): centre, then right, top, left, bottom of the iris boundary;
\* every entry is undefined when the tracker delivered no such landmark
IrisLandmarks(eye, lm) ==
    IF lm = "present" THEN IrisLandmarksAt(IrisGeometry(eye))
    ELSE [i \in 1..5 |-> Undefined]

\* landmarks[i] for the eye-contour indices of an eye; the sixteen contour
\* points are represented by the four extreme ones
ContourLandmarks(eye, lm) ==
    IF lm = "present" THEN ContourLandmarksAt(IrisGeometry(eye))
    ELSE [i \in 1..4 |-> Undefined]

\* a contour as cv.contourArea, cv.arcLength and cv.moments describe it
Blob(cx, cy, area, perimeter) ==
    [area |-> area, perimeter |-> perimeter, m00 |-> area,
     m10 |-> NumMul(Int2Num(cx), area), m01 |-> NumMul(Int2Num(cy), area)]

\* the contour of a disc of radius r centred at (cx, cy) of the region
Disc(cx, cy, r) ==
    Blob(cx, cy, NumMul(PI, Int2Num(r * r)), NumMul(PI, Int2Num(2 * r)))

\* average brightness sampled on the ring of radius r around the darkest
\* pixel: the pupil's darkness up to its edge, brighter from there on
Ring(edge, dark, bright) == [r \in 1..14 |-> IF r >= edge THEN bright ELSE dark]

\* What OpenCV finds around an eye.  Positions are offsets from the centre of
\* the iris; InRoi turns them into the coordinates of the region cut out.

\* A uniformly white eye: nothing to find.
ImgBlank ==
    [contours |-> <<>>,
     minLoc |-> [x |-> 0, y |-> 0], minVal |-> 255, centerValue |-> 255,
     ring |-> Ring(1, 255, 255),
     maxGradient |-> 0, peak |-> [x |-> 0, y |-> 0], avgGradient |-> 0,
     runs |-> <<0, 0, 0, 0, 0, 0, 0, 0>>,
     hough |-> Null,
     totalWeight |-> 0, weightedX |-> 0, weightedY |-> 0, p90 |-> 0]

\* A dark disc of radius 7 on the centre of a bright iris.
ImgPupilA ==
    [contours |-> <<Disc(0, 0, 7)>>,
     minLoc |-> [x |-> 0, y |-> 0], minVal |-> 160, centerValue |-> 160,
     ring |-> Ring(7, 160, 200),
     maxGradient |-> 40, peak |-> [x |-> 7, y |-> 0], avgGradient |-> 40,
     runs |-> <<7, 6, 7, 6, 7, 6, 7, 6>>,
     hough |-> Null,
     totalWeight |-> 4000, weightedX |-> 0, weightedY |-> 0,
     p90 |-> 7]

\* A darker disc of radius 5, three pixels right of the iris centre.
ImgPupilB ==
    [contours |-> <<Disc(3, 0, 5)>>,
     minLoc |-> [x |-> 3, y |-> 0], minVal |-> 20, centerValue |-> 20,
     ring |-> Ring(5, 20, 200),
     maxGradient |-> 90, peak |-> [x |-> 8, y |-> 0], avgGradient |-> 40,
     runs |-> <<5, 5, 5, 4, 5, 5, 5, 4>>,
     hough |-> Null,
     totalWeight |-> 4000, weightedX |-> 12000, weightedY |-> 0,
     p90 |-> 5]

\* A round speck (area about 3), an elongated blob of area 154 and a round
\* shadow of radius 18 (area about 1018): only the blob has a pupil's area.
ImgMixed ==
    [contours |-> <<Disc(0, -2, 1),
                    Blob(0, 0, Int2Num(154), Int2Num(55)),
                    Disc(-2, 0, 18)>>,
     minLoc |-> [x |-> -2, y |-> 0], minVal |-> 200, centerValue |-> 200,
     ring |-> Ring(15, 200, 255),
     maxGradient |-> 60, peak |-> [x |-> 16, y |-> 0], avgGradient |-> 30,
     runs |-> <<18, 17, 18, 17, 18, 17, 18, 17>>,
     hough |-> [cx |-> -2, cy |-> 0, radius |-> 18],
     totalWeight |-> 2000, weightedX |-> -4000, weightedY |-> 0,
     p90 |-> 18]

\* the image as the region with top-left corner (x, y) of the frame shows it
InRoi(img, eye, x, y) ==
    LET dx == IrisGeometry(eye).cx - x
        dy == IrisGeometry(eye).cy - y
    IN  [img EXCEPT
           !.contours = [i \in 1..Len(img.contours) |->
               [img.contours[i] EXCEPT
                  !.m10 = NumAdd(@, NumMul(Int2Num(dx), img.contours[i].m00)),
                  !.m01 = NumAdd(@, NumMul(Int2Num(dy), img.contours[i].m00))]],
           !.minLoc = [x |-> @.x + dx, y |-> @.y + dy],
           !.peak = [x |-> @.x + dx, y |-> @.y + dy],
           !.hough = IF @ = Null THEN Null ELSE [@ EXCEPT !.cx = @ + dx, !.cy = @ + dy],
           !.weightedX = @ + dx * img.totalWeight,
           !.weightedY = @ + dy * img.totalWeight]

\* what one eye looks like in a frame: are its landmarks delivered, and what
\* the image holds around it
SceneOf ==
    [absent |-> [lm |-> "absent", img |-> ImgBlank],
     blank |-> [lm |-> "present", img |-> ImgBlank],
     pupilA |-> [lm |-> "present", img |-> ImgPupilA],
     pupilB |-> [lm |-> "present", img |-> ImgPupilB],
     mixed |-> [lm |-> "present", img |-> ImgMixed]]

Scenes == {"absent", "blank", "pupilA", "pupilB", "mixed"}

RECURSIVE NumSum(_)
NumSum(s) == IF s = <<>> THEN Zero ELSE NumAdd(Head(s), NumSum(Tail(s)))

RECURSIVE NumMaxOf(_)
\* Math.max(...s)
NumMaxOf(s) ==
    IF Len(s) = 1 THEN Head(s) ELSE NumMax(Head(s), NumMaxOf(Tail(s)))

RECURSIVE NumMinOf(_)
\* Math.min(...s)
NumMinOf(s) ==
    IF Len(s) = 1 THEN Head(s) ELSE NumMin(Head(s), NumMinOf(Tail(s)))

Sq(a) == NumMul(a, a)

\* Math.sqrt(dx ** 2 + dy ** 2)
Hypot(dx, dy) == NumSqrt(NumAdd(Sq(dx), Sq(dy)))

\* ------------------------------------------------------------------------
\* Revision "simple": src/src/hooks/usePupilDetection.js
\* ------------------------------------------------------------------------

\* the scoring shared by the three contour methods for one contour c of a
\* region width x height: centroid, circularity and score
ContourScore(c, width, height, wCirc, wCenter) ==
    LET Scored(cx, cy, circularity, centerScore) ==
            [cx |-> cx, cy |-> cy, circularity |-> circularity,
             score |-> NumAdd(NumMul(circularity, wCirc), NumMul(centerScore, wCenter))]
        Centred(cx, cy, circularity) ==
            \* centerDist, then centerScore = max(0, 1 - centerDist / (width / 4))
            Scored(cx, cy, circularity,
                   NumMax(Zero, NumSub(One,
                       NumDiv(Hypot(NumSub(cx, Rat(width, 2)), NumSub(cy, Rat(height, 2))),
                              Rat(width, 4)))))
    IN  Centred(NumDiv(c.m10, c.m00), NumDiv(c.m01, c.m00),
                NumDiv(NumMul(NumMul(Int2Num(4), PI), c.area),
                       NumMul(c.perimeter, c.perimeter)))

\* no component rejected for its area
NoAreaRejected(area) == FALSE

\* if (area < 15 || area > 400) continue;
SimpleAreaRejected(area) == NumLt(area, Int2Num(15)) \/ NumGt(area, Int2Num(400))

RECURSIVE SimpleContourScan(_, _, _, _, _, _, _)
\* the for loop over contours of detectPupilByAdaptiveThreshold, detectPupilByOtsu
\* and detectPupilByContrastThreshold from contour i on; p holds what differs
\* between the three: weights, minimum circularity, confidence scale, method
SimpleContourScan(contours, i, width, height, p, bestPupil, bestScore) ==
    LET c == contours[i]
        Pick(k) ==
            IF NumGt(k.score, bestScore) /\ NumGt(k.circularity, p.minCirc)
            THEN SimpleContourScan(contours, i + 1, width, height, p,
                     [cx |-> k.cx, cy |-> k.cy,
                      diameter |-> NumMul(Int2Num(2), NumSqrt(NumDiv(c.area, PI))),
                      confidence |-> NumMul(k.score, p.confScale),
                      circularity |-> k.circularity, method |-> p.method],
                     k.score)
            ELSE SimpleContourScan(contours, i + 1, width, height, p, bestPupil, bestScore)
    IN  IF i > Len(contours) THEN bestPupil
        ELSE IF SimpleAreaRejected(c.area) \/ c.m00 = Zero
        THEN SimpleContourScan(contours, i + 1, width, height, p, bestPupil, bestScore)
        ELSE Pick(ContourScore(c, width, height, p.wCirc, p.wCenter))

\* Method 1: detectPupilByAdaptiveThreshold(roi, width, height)
DetectPupilByAdaptiveThreshold(img, width, height) ==
    SimpleContourScan(img.contours, 1, width, height,
        [wCirc |-> Rat(6, 10), wCenter |-> Rat(4, 10), minCirc |-> Rat(4, 10),
         confScale |-> One, method |-> "adaptive"], Null, Zero)

\* Method 2: detectPupilByOtsu(roi, width, height)
DetectPupilByOtsu(img, width, height) ==
    SimpleContourScan(img.contours, 1, width, height,
        [wCirc |-> Rat(7, 10), wCenter |-> Rat(3, 10), minCirc |-> Rat(3, 10),
         confScale |-> Rat(9, 10), method |-> "otsu"], Null, Zero)

\* Method 4: detectPupilByContrastThreshold(roi, width, height)
DetectPupilByContrastThreshold(img, width, height) ==
    SimpleContourScan(img.contours, 1, width, height,
        [wCirc |-> Rat(6, 10), wCenter |-> Rat(4, 10), minCirc |-> Rat(3, 10),
         confScale |-> One, method |-> "contrast"], Null, Zero)

RECURSIVE MinValueRadius(_, _, _)
\* the loop "for (let r = 1; r < 15; r++)": the first radius whose ring is more
\* than 25 brighter than the darkest pixel, 5 when there is none
MinValueRadius(img, r, centerValue) ==
    IF r >= 15 THEN 5
    ELSE IF img.ring[r] > centerValue + 25 THEN r
    ELSE MinValueRadius(img, r + 1, centerValue)

\* Method 3: detectPupilByMinValue(roi, width, height)
DetectPupilByMinValue(img, width, height) ==
    [cx |-> Int2Num(img.minLoc.x), cy |-> Int2Num(img.minLoc.y),
     diameter |-> Int2Num(2 * MinValueRadius(img, 1, img.centerValue)),
     confidence |-> NumMin(One, Rat(255 - img.minVal, 100)),
     circularity |-> Rat(8, 10), method |-> "minval"]

\* the methods array of analyzePupilPrecise, in order
SimpleMethods(img, width, height) ==
    <<DetectPupilByAdaptiveThreshold(img, width, height),
      DetectPupilByOtsu(img, width, height),
      DetectPupilByMinValue(img, width, height),
      DetectPupilByContrastThreshold(img, width, height)>>

RECURSIVE SimpleBest(_, _, _, _)
\* "for (const method of methods)": keep a result whose confidence beats bestScore
SimpleBest(results, i, bestResult, bestScore) ==
    IF i > Len(results) THEN bestResult
    ELSE IF results[i] # Null /\ NumGt(results[i].confidence, bestScore)
    THEN SimpleBest(results, i + 1, results[i], results[i].confidence)
    ELSE SimpleBest(results, i + 1, bestResult, bestScore)

\* Math.max(0, Math.floor(irisCenter - roiSize / 2))
RoiOrigin(irisCenter, roiSize) ==
    NumMax(Zero, NumFloor(NumSub(irisCenter, NumDiv(roiSize, Int2Num(2)))))

\* Math.min(imageWidth - x, Math.floor(roiSize))
RoiExtent(imageExtent, origin, roiSize) ==
    NumMin(NumSub(Int2Num(imageExtent), origin), NumFloor(roiSize))

\* "if (width <= 0 || height <= 0) return null" and the Rect of the ROI
RoiRect(x, y, width, height) ==
    IF NumLe(width, Zero) \/ NumLe(height, Zero) THEN Null
    ELSE [x |-> x.n, y |-> y.n, width |-> width.n, height |-> height.n]

\* the ROI of side roiSize around the iris centre, from its corner x, y
RoiFrom(x, y, roiSize, imageWidth, imageHeight) ==
    RoiRect(x, y, RoiExtent(imageWidth, x, roiSize), RoiExtent(imageHeight, y, roiSize))

\* irisRadius, roiSize = Math.max(20, Math.min(50, irisRadius * 1.2)) and the ROI
RoiAround(irisPoints, irisCenterX, irisCenterY, imageWidth, imageHeight) ==
    LET Square(roiSize) ==
            RoiFrom(RoiOrigin(irisCenterX, roiSize), RoiOrigin(irisCenterY, roiSize),
                    roiSize, imageWidth, imageHeight)
    IN  Square(NumMax(Int2Num(20), NumMin(Int2Num(50), NumMul(Rat(12, 10),
            NumMaxOf([i \in 1..Len(irisPoints) |->
                Hypot(NumSub(NumMul(irisPoints[i].x, Int2Num(imageWidth)), irisCenterX),
                      NumSub(NumMul(irisPoints[i].y, Int2Num(imageHeight)),
                             irisCenterY))])))))

\* the mean of the points' coordinates in pixels, and the ROI around it
RoiOfPoints(irisPoints, imageWidth, imageHeight) ==
    IF \E i \in 1..Len(irisPoints) : irisPoints[i] = Undefined THEN Null
    ELSE RoiAround(irisPoints,
             NumMul(NumDiv(NumSum([i \in 1..Len(irisPoints) |-> irisPoints[i].x]),
                           Int2Num(Len(irisPoints))), Int2Num(imageWidth)),
             NumMul(NumDiv(NumSum([i \in 1..Len(irisPoints) |-> irisPoints[i].y]),
                           Int2Num(Len(irisPoints))), Int2Num(imageHeight)),
             imageWidth, imageHeight)

\* analyzePupilPrecise lines 119-136: the ROI, or Null when the landmark access
\* throws (an entry is undefined) or the ROI is empty
SimpleRoi(scene, eye, imageWidth, imageHeight) ==
    RoiOfPoints(IrisLandmarks(eye, scene.lm), imageWidth, imageHeight)

\* analyzePupilPrecise(grayImage, landmarks, eyeConfig, imageWidth, imageHeight):
\* the best method's result in frame coordinates, or Null
AnalyzePupilPrecise(scene, eye, imageWidth, imageHeight) ==
    LET InFrame(roi, bestResult) ==
            IF bestResult = Null THEN Null
            ELSE [center |-> [x |-> NumAdd(Int2Num(roi.x), bestResult.cx),
                              y |-> NumAdd(Int2Num(roi.y), bestResult.cy)],
                  size |-> bestResult.diameter,
                  confidence |-> bestResult.confidence,
                  circularity |-> bestResult.circularity,
                  method |-> bestResult.method]
        Analyze(roi) ==
            IF roi = Null THEN Null
            ELSE InFrame(roi, SimpleBest(SimpleMethods(InRoi(scene.img, eye, roi.x, roi.y),
                                                       roi.width, roi.height),
                                         1, Null, Zero))
    IN  Analyze(SimpleRoi(scene, eye, imageWidth, imageHeight))

\* the hook's per-eye step, but dropping the eye's filters in a frame without
\* candidate
SimpleEyeStepForgetful(filters, result) ==
    LET Entry(f1) ==
            [filters |-> f1,
             entry |-> [center |-> [x |-> f1.x.x, y |-> f1.y.x],
                        size |-> f1.size.x,
                        rawSize |-> result.size,
                        rawCenter |-> result.center,
                        confidence |-> result.confidence,
                        circularity |-> result.circularity,
                        method |-> result.method]]
        Filter(f0) ==
            Entry([size |-> SimpleUpdate(f0.size, result.size),
                   x |-> SimpleUpdate(f0.x, result.center.x),
                   y |-> SimpleUpdate(f0.y, result.center.y)])
    IN  IF result # Null /\ NumGt(result.size, Zero)
        THEN Filter(IF filters = Null THEN SimpleFilters ELSE filters)
        ELSE [filters |-> Null, entry |-> Undefined]

\* usePupilDetection.js lines 75-99 for one eye: the hook's filters of the eye
\* after the frame and the entry written to results (undefined when the eye
\* has no candidate); filters is kalmanFilters.current[eye]
SimpleEyeStep(filters, result) ==
    LET Entry(f1) ==
            [filters |-> f1,
             entry |-> [center |-> [x |-> f1.x.x, y |-> f1.y.x],
                        size |-> f1.size.x,
                        rawSize |-> result.size,
                        rawCenter |-> result.center,
                        confidence |-> result.confidence,
                        circularity |-> result.circularity,
                        method |-> result.method]]
        Filter(f0) ==
            Entry([size |-> SimpleUpdate(f0.size, result.size),
                   x |-> SimpleUpdate(f0.x, result.center.x),
                   y |-> SimpleUpdate(f0.y, result.center.y)])
    IN  IF result # Null /\ NumGt(result.size, Zero)
        THEN Filter(IF filters = Null THEN SimpleFilters ELSE filters)
        ELSE [filters |-> filters, entry |-> Undefined]

\* the hook processing both eyes whatever the mode
EyesToProcessBoth(eyeType) == Eyes

\* const eyesToProcess = eyeType === 'both' ? ['left', 'right'] : [eyeType];
\* an eyeType that names no eye is skipped by "if (!eyes[eye]) return"
EyesToProcess(eyeType) ==
    IF eyeType = "both" THEN Eyes ELSE {eyeType} \cap Eyes

\* ------------------------------------------------------------------------
\* Revision "app": src/src/App.jsx
\* ------------------------------------------------------------------------

\* { size: 0, center: null, region: null, confidence: 0 }
Placeholder == [size |-> Zero, center |-> Null, region |-> Null, confidence |-> Zero]

\* getIrisBoundingCircle: centerX, centerY and radius = maxDistance + 2 over
\* the landmarks found (valid)
CircleAround(valid, centerX, centerY, width, height) ==
    [centerX |-> centerX, centerY |-> centerY,
     radius |-> NumAdd(Int2Num(2), NumMaxOf(<<Zero>> \o [i \in 1..Len(valid) |->
         Hypot(NumSub(NumMul(valid[i].x, Int2Num(width)), centerX),
               NumSub(NumMul(valid[i].y, Int2Num(height)), centerY))]))]

\* getIrisBoundingCircle: "if (validPoints === 0) return null" and the mean
CircleOfPoints(valid, width, height) ==
    IF Len(valid) = 0 THEN Null
    ELSE CircleAround(valid,
             NumDiv(NumSum([i \in 1..Len(valid) |-> NumMul(valid[i].x, Int2Num(width))]),
                    Int2Num(Len(valid))),
             NumDiv(NumSum([i \in 1..Len(valid) |-> NumMul(valid[i].y, Int2Num(height))]),
                    Int2Num(Len(valid))),
             width, height)

\* getIrisBoundingCircle(landmarks, indices, width, height)
GetIrisBoundingCircle(scene, eye, width, height) ==
    CircleOfPoints(SelectSeq(IrisLandmarks(eye, scene.lm), LAMBDA pt : pt # Undefined),
                   width, height)

\* getEyeRegionAndPupil: the eyeRegion cut around the iris circle
AppEyeRegion(irisCircle, padding, width, height) ==
    LET left == NumFloor(NumSub(NumSub(irisCircle.centerX, irisCircle.radius), Int2Num(padding)))
        top == NumFloor(NumSub(NumSub(irisCircle.centerY, irisCircle.radius), Int2Num(padding)))
        side == NumFloor(NumAdd(NumMul(irisCircle.radius, Int2Num(2)), Int2Num(2 * padding)))
    IN  [x |-> NumMax(Zero, left), y |-> NumMax(Zero, top),
         width |-> NumMin(NumSub(Int2Num(width), left), side),
         height |-> NumMin(NumSub(Int2Num(height), top), side)]

\* "if (eyeRegion.width < 10 || eyeRegion.height < 10)"
AppRegionTooSmall(eyeRegion) ==
    NumLt(eyeRegion.width, Int2Num(10)) \/ NumLt(eyeRegion.height, Int2Num(10))

\* if (area > minArea && area < maxArea): the contour is scored
AppAreaAccepted(area, focused) ==
    /\ NumGt(area, Int2Num(IF focused THEN 8 ELSE 15))
    /\ NumLt(area, Int2Num(IF focused THEN 600 ELSE 400))

RECURSIVE AppContourScan(_, _, _, _)
\* getEyeRegionAndPupil: the for loop over contours from contour i on; p holds
\* focused, irisCircle, padding, eyeRegion; best holds bestPupil, maxScore and
\* confidence
AppContourScan(contours, i, p, best) ==
    LET c == contours[i]
        minCircularity == IF p.focused THEN Rat(4, 10) ELSE Rat(5, 10)
        maxAllowedDist == NumMul(p.irisCircle.radius, Rat(5, 10))
        Keep(circularity, centerX, centerY, currentScore) ==
            IF AppAreaAccepted(c.area, p.focused)
               /\ NumGt(currentScore, best.maxScore) /\ NumGt(circularity, minCircularity)
            THEN AppContourScan(contours, i + 1, p,
                     [size |-> NumMul(NumSqrt(NumDiv(c.area, PI)), Int2Num(2)),
                      center |-> [x |-> NumAdd(p.eyeRegion.x, centerX),
                                  y |-> NumAdd(p.eyeRegion.y, centerY)],
                      maxScore |-> currentScore,
                      confidence |-> NumMin(Int2Num(100),
                          NumFloor(NumMul(NumDiv(currentScore,
                              Int2Num(IF p.focused THEN 1500 ELSE 1000)), Int2Num(100))))])
            ELSE AppContourScan(contours, i + 1, p, best)
        Score(circularity, centerX, centerY, distFromIrisCenter) ==
            Keep(circularity, centerX, centerY,
                 IF NumLe(distFromIrisCenter, maxAllowedDist)
                 THEN NumMul(NumMul(c.area, circularity),
                          NumAdd(One, NumMul(NumSub(One, NumDiv(distFromIrisCenter,
                                                                maxAllowedDist)),
                                             Rat(5, 10))))
                 ELSE NumMul(NumMul(c.area, circularity), Rat(5, 10)))
        Measure(circularity, centerX, centerY, irisCircleRelative) ==
            Score(circularity, centerX, centerY,
                  Hypot(NumSub(centerX, irisCircleRelative),
                        NumSub(centerY, irisCircleRelative)))
    IN  IF i > Len(contours) THEN best
        ELSE Measure(IF c.perimeter = Zero THEN Zero
                     ELSE NumDiv(NumMul(NumMul(Int2Num(4), PI), c.area), Sq(c.perimeter)),
                     IF c.m00 # Zero THEN NumDiv(c.m10, c.m00) ELSE Zero,
                     IF c.m00 # Zero THEN NumDiv(c.m01, c.m00) ELSE Zero,
                     NumAdd(p.irisCircle.radius, Int2Num(p.padding)))

\* getEyeRegionAndPupil(grayMat, landmarks, eye, width, height) under focusMode
GetEyeRegionAndPupil(scene, eye, focusMode, width, height) ==
    LET focused == focusMode = eye
        padding == IF focused THEN 5 ELSE 3
        Found(eyeRegion, best) ==
            [size |-> best.size, center |-> best.center,
             region |-> eyeRegion, confidence |-> best.confidence]
        Within(irisCircle, eyeRegion) ==
            IF AppRegionTooSmall(eyeRegion)
            THEN [Placeholder EXCEPT !.region = eyeRegion]
            ELSE Found(eyeRegion,
                     AppContourScan(
                         InRoi(scene.img, eye, eyeRegion.x.n, eyeRegion.y.n).contours, 1,
                         [focused |-> focused, irisCircle |-> irisCircle,
                          padding |-> padding, eyeRegion |-> eyeRegion],
                         [size |-> Zero, center |-> Null, maxScore |-> Zero,
                          confidence |-> Zero]))
        Around(irisCircle) ==
            IF irisCircle = Null THEN Placeholder
            ELSE Within(irisCircle, AppEyeRegion(irisCircle, padding, width, height))
    IN  Around(GetIrisBoundingCircle(scene, eye, width, height))

\* detectPupils lines 411-439 (left) and 442-469 (right) for one processed eye:
\* the eye's three filters after the frame and the entry written to result
AppEyeStep(filters, raw) ==
    LET Entry(f1) ==
            [filters |-> f1,
             entry |-> [size |-> f1.Size.x,
                        center |-> [x |-> f1.X.x, y |-> f1.Y.x],
                        region |-> raw.region,
                        confidence |-> raw.confidence]]
    IN  IF raw.center # Null
        THEN Entry([X |-> AppChannelStep(filters.X, raw.center.x),
                    Y |-> AppChannelStep(filters.Y, raw.center.y),
                    Size |-> AppChannelStep(filters.Size, raw.size)])
        ELSE [filters |-> filters, entry |-> Placeholder]

\* App.jsx processing both eyes whatever the focus mode
AppProcessedBoth(focusMode, eye) == TRUE

\* detectPupils: is the eye processed under focusMode
AppProcessed(focusMode, eye) == focusMode = "both" \/ focusMode = eye

\* ------------------------------------------------------------------------
\* Revision "advanced": src/unnamed/part_001 (usePupilDetection)
\* ------------------------------------------------------------------------

\* Method 1: starburstPupilDetection(roi, width, height); it always returns a
\* candidate, the centre of the region when no gradient is positive
StarburstPupilDetection(img, width, height) ==
    LET found == img.maxGradient > 0
        \* estimateDiameterFromGradients: twice the longest of the eight runs
        maxRadius == NumMaxOf(<<Zero>> \o [i \in 1..Len(img.runs) |-> Int2Num(img.runs[i])])
    IN  [cx |-> IF found THEN Int2Num(img.peak.x) ELSE Rat(width, 2),
         cy |-> IF found THEN Int2Num(img.peak.y) ELSE Rat(height, 2),
         diameter |-> NumMul(maxRadius, Int2Num(2)),
         confidence |-> NumMin(One, NumDiv(Int2Num(img.maxGradient),
                                           Int2Num(img.avgGradient * 3))),
         circularity |-> Rat(8, 10), method |-> "starburst"]

\* if (area > 30 && area < 1000)
AdvancedAreaAccepted(area) == NumGt(area, Int2Num(30)) /\ NumLt(area, Int2Num(1000))

RECURSIVE AdvancedContourScan(_, _, _)
\* advancedThresholdDetection: the loop over contours and the reduce over
\* bestResults, from contour i on (strictly greater confidence replaces best)
AdvancedContourScan(contours, i, best) ==
    LET c == contours[i]
        Push(circularity) ==
            IF AdvancedAreaAccepted(c.area) /\ c.m00 # Zero
               /\ NumGt(circularity, Rat(3, 10))
               /\ (best = Null
                   \/ NumGt(NumMul(circularity, NumMin(One, NumDiv(c.area, Int2Num(200)))),
                            best.confidence))
            THEN AdvancedContourScan(contours, i + 1,
                     [cx |-> NumDiv(c.m10, c.m00), cy |-> NumDiv(c.m01, c.m00),
                      diameter |-> NumMul(Int2Num(2), NumSqrt(NumDiv(c.area, PI))),
                      confidence |-> NumMul(circularity,
                                        NumMin(One, NumDiv(c.area, Int2Num(200)))),
                      circularity |-> circularity, area |-> c.area,
                      method |-> "threshold"])
            ELSE AdvancedContourScan(contours, i + 1, best)
    IN  IF i > Len(contours) THEN best
        ELSE Push(NumDiv(NumMul(NumMul(Int2Num(4), PI), c.area), Sq(c.perimeter)))

\* Method 2: advancedThresholdDetection(roi, width, height).  The loop over the
\* five thresholds deletes contours and hierarchy at the end of an iteration
\* and passes them to findContours in the next one: whether that call works or
\* throws (the function then returns null) depends on the OpenCV.js build,
\* so it is the input reuse
AdvancedThresholdDetection(img, reuse) ==
    IF reuse = "throws" THEN Null ELSE AdvancedContourScan(img.contours, 1, Null)

\* Method 3: houghCircleDetection(roi, width, height)
HoughCircleDetection(img) ==
    IF img.hough = Null THEN Null
    ELSE [cx |-> Int2Num(img.hough.cx), cy |-> Int2Num(img.hough.cy),
          diameter |-> Int2Num(img.hough.radius * 2),
          confidence |-> Rat(7, 10), circularity |-> Rat(9, 10), method |-> "hough"]

\* Method 4: gradientBasedDetection(roi, width, height)
GradientBasedDetection(img) ==
    IF img.totalWeight > 0
    THEN [cx |-> Rat(img.weightedX, img.totalWeight),
          cy |-> Rat(img.weightedY, img.totalWeight),
          diameter |-> Int2Num(img.p90 * 2),
          confidence |-> NumMin(One, Rat(img.totalWeight, 5000)),
          circularity |-> Rat(7, 10), method |-> "gradient"]
    ELSE Null

\* selectBestCandidate: the score of one candidate
CandidateScore(candidate) ==
    LET sizeScore == IF NumGt(candidate.diameter, Int2Num(10))
                        /\ NumLt(candidate.diameter, Int2Num(60))
                     THEN One ELSE Rat(5, 10)
        methodBonus == IF candidate.method \in {"starburst", "hough"}
                       THEN Rat(1, 10) ELSE Zero
    IN  NumAdd(NumAdd(NumAdd(NumMul(candidate.confidence, Rat(4, 10)),
                             NumMul(candidate.circularity, Rat(3, 10))),
                      NumMul(sizeScore, Rat(2, 10))), methodBonus)

RECURSIVE ReduceBest(_, _, _)
\* scoredCandidates.reduce((best, current) => current.score > best.score ? ...)
ReduceBest(candidates, i, best) ==
    IF i > Len(candidates) THEN best
    ELSE IF NumGt(CandidateScore(candidates[i]), CandidateScore(best))
    THEN ReduceBest(candidates, i + 1, candidates[i])
    ELSE ReduceBest(candidates, i + 1, best)

\* selectBestCandidate(candidates)
SelectBestCandidate(candidates) ==
    IF Len(candidates) = 0 THEN Null
    ELSE IF Len(candidates) = 1 THEN candidates[1]
    ELSE ReduceBest(candidates, 2, candidates[1])

\* analyzeEyeAdvanced lines 233-241: the ROI padded by 15 around the bounding
\* box minX..maxX, minY..maxY
RoiOfBox(minX, maxX, minY, maxY, imageWidth, imageHeight) ==
    LET padding == Int2Num(15)
        Box(x, y) ==
            RoiRect(x, y,
                NumMin(NumSub(Int2Num(imageWidth), x),
                       NumFloor(NumAdd(NumSub(maxX, minX), NumMul(Int2Num(2), padding)))),
                NumMin(NumSub(Int2Num(imageHeight), y),
                       NumFloor(NumAdd(NumSub(maxY, minY), NumMul(Int2Num(2), padding)))))
    IN  Box(NumMax(Zero, NumFloor(NumSub(minX, padding))),
            NumMax(Zero, NumFloor(NumSub(minY, padding))))

\* analyzeEyeAdvanced lines 224-231: the bounding box of the contour points
RoiOfContour(pts, imageWidth, imageHeight) ==
    LET Bounds(xs, ys) ==
            RoiOfBox(NumMinOf(xs), NumMaxOf(xs), NumMinOf(ys), NumMaxOf(ys),
                     imageWidth, imageHeight)
    IN  IF \E i \in 1..Len(pts) : pts[i] = Undefined THEN Null
        ELSE Bounds([i \in 1..Len(pts) |-> NumMul(pts[i].x, Int2Num(imageWidth))],
                    [i \in 1..Len(pts) |-> NumMul(pts[i].y, Int2Num(imageHeight))])

\* analyzeEyeAdvanced lines 224-241: the ROI around the eye contour, or Null
\* when a landmark access throws or the ROI is empty
AdvancedRoi(scene, eye, imageWidth, imageHeight) ==
    RoiOfContour(ContourLandmarks(eye, scene.lm), imageWidth, imageHeight)

\* analyzeEyeAdvanced: the candidates array
AdvancedCandidates(img, width, height, reuse) ==
    SelectSeq(<<StarburstPupilDetection(img, width, height),
                AdvancedThresholdDetection(img, reuse),
                HoughCircleDetection(img),
                GradientBasedDetection(img)>>, LAMBDA c : c # Null)

\* analyzeEyeAdvanced(grayImage, landmarks, eyeConfig, imageWidth, imageHeight)
AnalyzeEyeAdvanced(scene, eye, imageWidth, imageHeight, reuse) ==
    LET InFrame(roi, bestCandidate) ==
            IF bestCandidate = Null THEN Null
            ELSE [center |-> [x |-> NumAdd(Int2Num(roi.x), bestCandidate.cx),
                              y |-> NumAdd(Int2Num(roi.y), bestCandidate.cy)],
                  size |-> bestCandidate.diameter,
                  confidence |-> bestCandidate.confidence,
                  circularity |-> bestCandidate.circularity,
                  contrast |-> Zero,
                  method |-> bestCandidate.method]
        Analyze(roi) ==
            IF roi = Null THEN Null
            ELSE InFrame(roi, SelectBestCandidate(AdvancedCandidates(
                     InRoi(scene.img, eye, roi.x, roi.y), roi.width, roi.height, reuse)))
    IN  Analyze(AdvancedRoi(scene, eye, imageWidth, imageHeight))

\* calculateStability(current, previous)
CalculateStability(current, previous) ==
    IF previous = Null THEN Rat(5, 10)
    ELSE LET centerDist == Hypot(NumSub(current.center.x, previous.center.x),
                                 NumSub(current.center.y, previous.center.y))
             sizeDiff == NumAbs(NumSub(current.size, previous.size))
             centerStability == NumMax(Zero, NumSub(One, NumDiv(centerDist, Int2Num(10))))
             sizeStability == NumMax(Zero, NumSub(One, NumDiv(sizeDiff, Int2Num(5))))
         IN  NumDiv(NumAdd(centerStability, sizeStability), Int2Num(2))

\* part_001 lines 192-213 for one eye: the eye's filter and stored previous
\* result after the frame, and the entry written to results
AdvancedEyeStep(filter, previous, result) ==
    LET Entry(f1) ==
            [filters |-> f1, previous |-> result,
             entry |-> [center |-> [x |-> f1.state[1], y |-> f1.state[2]],
                        size |-> f1.state[3],
                        rawSize |-> result.size,
                        rawCenter |-> result.center,
                        confidence |-> result.confidence,
                        circularity |-> result.circularity,
                        contrast |-> result.contrast,
                        stability |-> CalculateStability(result, previous)]]
    IN  IF result # Null
        THEN Entry(AdvancedUpdate(IF filter = Null
                                  THEN AdvancedKalmanFilter(Rat(1, 10), Int2Num(2))
                                  ELSE filter, result))
        ELSE [filters |-> filter, previous |-> previous, entry |-> Undefined]

\* ------------------------------------------------------------------------
\* One detect call
\* ------------------------------------------------------------------------

Revisions == {"simple", "advanced", "app"}

\* what the call receives as video (videoRef.current in App.jsx): an element
\* with pixels, null, or an element whose videoWidth is 0
Videos == {"ok", "null", "zero"}

\* what the call receives as landmarks: the tracker's array, null, or []
LandmarkSets == {"ok", "null", "empty"}

\* the outcomes of reusing the deleted contours in advancedThresholdDetection
Reuses(rev) == IF rev = "advanced" THEN {"works", "throws"} ELSE {"works"}

\* the eyes a call processes
Processed(rev, eyeType) ==
    IF rev = "app" THEN {e \in Eyes : AppProcessed(eyeType, e)}
    ELSE EyesToProcess(eyeType)

\* the scene an eye's pipeline sees: every landmark entry of [] is undefined
Seen(landmarks, scene) == IF landmarks = "empty" THEN "absent" ELSE scene

\* does the call return or throw before any eye is looked at, and how
\*   hook: if (!window.cv || !landmarks || !video.videoWidth) return null;
\*         reading videoWidth of null throws outside the try block
\*   app:  if (!window.cv || !videoRef.current || !landmarks) return null;
\*         getImageData of a 0 x 0 canvas throws inside the try block
EarlyExit(rev, video, landmarks) ==
    IF rev = "app"
    THEN IF video = "null" \/ landmarks = "null" \/ video = "zero"
         THEN "null" ELSE "none"
    ELSE IF landmarks = "null" THEN "null"
    ELSE IF video = "null" THEN "throw"
    ELSE IF video = "zero" THEN "null"
    ELSE "none"

\* the candidate of one eye before filtering: analyzePupilPrecise,
\* analyzeEyeAdvanced or getEyeRegionAndPupil
RawPupil(rev, scene, eye, eyeType, reuse) ==
    IF rev = "simple" THEN AnalyzePupilPrecise(scene, eye, Frame.width, Frame.height)
    ELSE IF rev = "advanced"
    THEN AnalyzeEyeAdvanced(scene, eye, Frame.width, Frame.height, reuse)
    ELSE GetEyeRegionAndPupil(scene, eye, eyeType, Frame.width, Frame.height)

\* RawPupil on every input, computed once
RawPupils ==
    [rev \in Revisions, scene \in Scenes, eye \in Eyes, eyeType \in Modes,
     reuse \in {"works", "throws"} |->
        RawPupil(rev, SceneOf[scene], eye, eyeType, reuse)]

\* does the candidate reach the eye's filters
Measured(rev, raw) ==
    IF rev = "simple" THEN raw # Null /\ NumGt(raw.size, Zero)
    ELSE IF rev = "advanced" THEN raw # Null
    ELSE raw.center # Null

\* was a region of the frame cut out for the eye (raw is the eye's candidate)
RegionComputed(rev, scene, eye, raw) ==
    IF rev = "simple" THEN SimpleRoi(scene, eye, Frame.width, Frame.height) # Null
    ELSE IF rev = "advanced" THEN AdvancedRoi(scene, eye, Frame.width, Frame.height) # Null
    ELSE raw.region # Null

\* the per-eye step of the revision: filters, previous and entry after it
EyeStep(rev, filters, previous, raw) ==
    IF rev = "simple"
    THEN [previous |-> previous] @@ SimpleEyeStep(filters, raw)
    ELSE IF rev = "advanced" THEN AdvancedEyeStep(filters, previous, raw)
    ELSE [previous |-> previous] @@ AppEyeStep(filters, raw)

\* the entry of an eye the call does not process: the hook leaves the key out,
\* App.jsx lines 472-476 fill in the default values
Unprocessed(rev) == IF rev = "app" THEN Placeholder ELSE Undefined

\* return Object.keys(results).length > 0 ? results : null   (hook)
\* return result                                             (App.jsx)
Returned(rev, results) ==
    IF rev # "app" /\ \A e \in Eyes : results[e] = Undefined THEN Null ELSE results

\* ------------------------------------------------------------------------
\* State
\* ------------------------------------------------------------------------

VARIABLES
    revision,        \* which revision of the engine runs
    eyeMode,         \* VideoPlayer's eyeMode prop; focusMode in App.jsx
    boundMode,       \* the mode seen by the results callback the tracker holds
    kalmanFilters,   \* kalmanFilters.current[eye]; in App.jsx the six refs
                     \* kfLeftX .. kfRightSize as [eye][X, Y, Size]
    previousPupils,  \* previousPupils.current[eye]
    pupilData,       \* VideoPlayer's pupilData; currentPupilData in App.jsx
    isStreamActive,  \* App.jsx: isStreamActive
    lastCall,        \* the last detect call: its inputs and what came of it
    detections,      \* per eye: measurements its present filters have taken
    fresh,           \* per eye: no estimate emitted since the stream started
    missed,          \* per eye: a frame without candidate since its last one
    loops,           \* the frame loops alive (useCamera loop, processFrame) and
                     \* rafRef / animationFrameRef
    probe,           \* a function examined on its own: its inputs and outcome
    recorder,        \* App.jsx: the recording (isRecording, recordingData, timer)
    camera,          \* App.jsx and CameraView: the stream and the calls in flight
    cameraEffect,    \* useCamera: the runs of its effect
    loader           \* the document's scripts and the loading of dependencies

vars == <<revision, eyeMode, boundMode, kalmanFilters, previousPupils, pupilData,
          isStreamActive, lastCall, detections, fresh, missed, loops, probe,
          recorder, camera, cameraEffect, loader>>

\* the state around the engine
shell == <<recorder, camera, cameraEffect, loader>>

\* no function is under examination
NoProbe == [kind |-> "none"]

\* nothing around the engine is followed
Unfollowed == [kind |-> "none"]

ShellIdle ==
    /\ recorder = Unfollowed
    /\ camera = Unfollowed
    /\ cameraEffect = Unfollowed
    /\ loader = Unfollowed

\* how many frame loops are followed at a time
MaxLoops == 2

LoopIds == 1..MaxLoops

\* no frame loop is running and no animation frame was ever requested
NoLoops == [pc |-> [i \in LoopIds |-> "off"], raf |-> 0]

\* how many measurements the filters of the two eyes hold together
MaxUpdates == 2

\* the largest denominator a filter value may have when it takes a measurement
MaxDenominator == 10000

\* the filters of an eye when nothing has been measured: the hook's refs hold
\* null, App.jsx constructs its filters up front
NewFilters(rev) == IF rev = "app" THEN AppFilters ELSE Null

\* has the eye's filter taken a measurement (initialized flag of the hook's
\* filters; App.jsx tests the estimate against 0)
Initialized(rev, filters) ==
    IF rev = "simple" THEN filters # Null /\ filters.size.initialized
    ELSE IF rev = "advanced" THEN filters # Null /\ filters.initialized
    ELSE filters.Size.x # Zero

\* every number a filter holds
FilterValues(rev, filters) ==
    IF filters = Null THEN {}
    ELSE IF rev = "simple"
    THEN UNION {{filters[c].x, filters[c].P} : c \in {"size", "x", "y"}}
    ELSE IF rev = "advanced" THEN {filters.state[i] : i \in 1..6}
    ELSE UNION {{filters[c].x, filters[c].P} : c \in {"X", "Y", "Size"}}

\* the filter's numbers are small enough to take one more measurement
Representable(rev, filters) ==
    \A v \in FilterValues(rev, filters) : IsNum(v) => v.d <= MaxDenominator

NoCall ==
    [eyeType |-> "both", selected |-> "both", video |-> "ok", landmarks |-> "ok", reuse |-> "works",
     scene |-> [e \in Eyes |-> "absent"], outcome |-> "none", result |-> Null,
     raw |-> [e \in Eyes |-> Null], processed |-> {}, measured |-> {},
     regions |-> {}, first |-> {}, tracked |-> {}, missedBefore |-> {}]

Init ==
    /\ revision \in Revisions
    /\ eyeMode = "both"
    /\ boundMode = IF revision = "app" THEN "none" ELSE "both"
    /\ kalmanFilters = [e \in Eyes |-> NewFilters(revision)]
    /\ previousPupils = [e \in Eyes |-> Null]
    /\ pupilData = Null
    /\ isStreamActive = (revision # "app")
    /\ lastCall = NoCall
    /\ detections = [e \in Eyes |-> 0]
    /\ fresh = [e \in Eyes |-> TRUE]
    /\ missed = [e \in Eyes |-> FALSE]
    /\ loops = NoLoops
    /\ probe = NoProbe
    /\ ShellIdle

\* ------------------------------------------------------------------------
\* Actions
\* ------------------------------------------------------------------------

\* detectPupil(video, landmarks, eyeMode) of the hook, detectPupils(landmarks)
\* of App.jsx: one call on a frame whose eyes look like scene; deliver says
\* whether the caller stores a non-null result (setPupilData,
\* setCurrentPupilData)
Detect(video, landmarks, scene, reuse, deliver) ==
    LET exit == EarlyExit(revision, video, landmarks)
        P == IF exit = "none" THEN Processed(revision, boundMode) ELSE {}
        seen == [e \in Eyes |-> Seen(landmarks, scene[e])]
        Store(raw, M, regions, step, result) ==
            /\ kalmanFilters' = [e \in Eyes |-> step[e].filters]
            /\ previousPupils' = [e \in Eyes |-> step[e].previous]
            /\ pupilData' = IF deliver /\ result # Null THEN result ELSE pupilData
            /\ lastCall' =
                   [eyeType |-> boundMode, selected |-> eyeMode, video |-> video, landmarks |-> landmarks,
                    reuse |-> reuse, scene |-> seen,
                    outcome |-> IF exit = "throw" THEN "threw" ELSE "returned",
                    result |-> result, raw |-> raw, processed |-> P,
                    measured |-> M, regions |-> regions,
                    first |-> {e \in Eyes : fresh[e]},
                    tracked |-> {e \in Eyes : Initialized(revision, kalmanFilters[e])},
                    missedBefore |-> {e \in Eyes : missed[e]}]
            /\ detections' = [e \in Eyes |->
                                 IF e \in M THEN detections[e] + 1 ELSE detections[e]]
            /\ fresh' = [e \in Eyes |-> fresh[e] /\ e \notin M]
            /\ missed' = [e \in Eyes |->
                             IF e \in M THEN FALSE ELSE missed[e] \/ e \in P]
        Return(raw, M, regions, step) ==
            Store(raw, M, regions, step,
                  IF exit = "none"
                  THEN Returned(revision, [e \in Eyes |-> step[e].entry])
                  ELSE Null)
        StepOf(raw, e) ==
            IF e \in P
            THEN EyeStep(revision, kalmanFilters[e], previousPupils[e], raw[e])
            ELSE [filters |-> kalmanFilters[e], previous |-> previousPupils[e],
                  entry |-> Unprocessed(revision)]
        Filter(raw, M, regions) ==
            /\ detections["left"] + detections["right"] + Cardinality(M) <= MaxUpdates
            /\ \A e \in M : Representable(revision, kalmanFilters[e])
            /\ Return(raw, M, regions,
                      [left |-> StepOf(raw, "left"), right |-> StepOf(raw, "right")])
        Measure(raw) ==
            Filter(raw, {e \in P : Measured(revision, raw[e])},
                   {e \in P : RegionComputed(revision, SceneOf[seen[e]], e, raw[e])})
    IN  /\ Measure([e \in Eyes |->
                       IF e \in P THEN RawPupils[revision, seen[e], e, boundMode, reuse]
                       ELSE Null])
        /\ UNCHANGED <<revision, eyeMode, boundMode, isStreamActive>>

\* what an eye can look like in a frame; how an eye the call does not process
\* looks is never read, so one look stands for all of them
Looks(e) == IF e \in Processed(revision, boundMode) THEN Scenes ELSE {"pupilA"}

\* VideoPlayer.jsx lines 23-44, App.jsx onFaceMeshResults: the tracker delivers
\* the landmarks of a face for a frame of the running video
OnResults(sceneLeft, sceneRight, reuse) ==
    /\ isStreamActive
    /\ boundMode # "none"
    /\ Detect("ok", "ok", [left |-> sceneLeft, right |-> sceneRight], reuse, TRUE)

\* a caller hands detect a frame or a landmark set that is not well formed;
\* what the call does with it does not depend on earlier measurements, and it
\* is handed to an engine that has measured nothing
DetectMalformed(video, landmarks) ==
    /\ (video = "ok") # (landmarks = "ok")
    /\ \A e \in Eyes : detections[e] = 0
    /\ boundMode # "none"
    /\ Detect(video, landmarks, [left |-> "pupilA", right |-> "pupilA"], "works", FALSE)

\* the user picks another eye mode (setEyeMode, setFocusMode).  VideoPlayer's
\* results callback is made anew (useCallback on eyeMode) and the effect of
\* useFaceMesh.js, which depends on it, closes the tracker and registers the
\* new callback with a new one.  App.jsx registers onFaceMeshResults in an
\* effect that depends on isMediaPipeLoaded alone: the tracker keeps the
\* callback it was given
SetEyeMode(mode) ==
    /\ mode # eyeMode
    /\ eyeMode' = mode
    /\ boundMode' = IF revision = "app" THEN boundMode ELSE mode
    /\ UNCHANGED <<revision, kalmanFilters, previousPupils, pupilData,
                   isStreamActive, lastCall, detections, fresh, missed>>

\* App.jsx initializeMediaPipe (effect on isMediaPipeLoaded): the tracker is
\* created and given onFaceMeshResults of the render the effect belongs to,
\* whose detectPupils sees the focusMode of that render
InitializeMediaPipe ==
    /\ revision = "app"
    /\ boundMode = "none"
    /\ boundMode' = eyeMode
    /\ UNCHANGED <<revision, eyeMode, kalmanFilters, previousPupils, pupilData,
                   isStreamActive, lastCall, detections, fresh, missed>>

\* App.jsx startCamera, from the stopped state
StartCamera ==
    /\ revision = "app"
    /\ ~isStreamActive
    /\ isStreamActive' = TRUE
    /\ fresh' = [e \in Eyes |-> TRUE]
    /\ UNCHANGED <<revision, eyeMode, boundMode, kalmanFilters, previousPupils, pupilData,
                   lastCall, detections, missed>>

\* App.jsx stopCamera
StopCamera ==
    /\ revision = "app"
    /\ isStreamActive
    /\ isStreamActive' = FALSE
    /\ pupilData' = Null
    /\ kalmanFilters' = [e \in Eyes |-> AppFilters]
    /\ detections' = [e \in Eyes |-> 0]
    /\ missed' = [e \in Eyes |-> FALSE]
    /\ lastCall' = NoCall
    /\ UNCHANGED <<revision, eyeMode, boundMode, previousPupils, fresh>>

\* App.jsx switchCamera while the stream is active: startCamera stops the
\* tracks of the old stream and attaches a new one
SwitchCamera ==
    /\ revision = "app"
    /\ isStreamActive
    /\ fresh' = [e \in Eyes |-> TRUE]
    /\ UNCHANGED <<revision, eyeMode, boundMode, kalmanFilters, previousPupils, pupilData,
                   isStreamActive, lastCall, detections, missed>>

\* the component using the hook is unmounted and mounted again: useRef and
\* useState start over and useCamera opens a new stream
Remount ==
    /\ revision # "app"
    /\ kalmanFilters' = [e \in Eyes |-> Null]
    /\ previousPupils' = [e \in Eyes |-> Null]
    /\ pupilData' = Null
    /\ detections' = [e \in Eyes |-> 0]
    /\ fresh' = [e \in Eyes |-> TRUE]
    /\ missed' = [e \in Eyes |-> FALSE]
    /\ lastCall' = NoCall
    /\ UNCHANGED <<revision, eyeMode, boundMode, isStreamActive>>

\* Spec takes the sending of a frame to the tracker and the results callback
\* as one step (OnResults) and does not follow the frame loops; FrameSpec
\* below does
Next ==
    \/ \E sl \in Looks("left"), sr \in Looks("right"), reuse \in Reuses(revision) :
           OnResults(sl, sr, reuse) /\ UNCHANGED <<loops, probe, shell>>
    \/ \E video \in Videos, landmarks \in LandmarkSets :
           DetectMalformed(video, landmarks) /\ UNCHANGED <<loops, probe, shell>>
    \/ \E mode \in Modes : SetEyeMode(mode) /\ UNCHANGED <<loops, probe, shell>>
    \/ InitializeMediaPipe /\ UNCHANGED <<loops, probe, shell>>
    \/ StartCamera /\ UNCHANGED <<loops, probe, shell>>
    \/ StopCamera /\ UNCHANGED <<loops, probe, shell>>
    \/ SwitchCamera /\ UNCHANGED <<loops, probe, shell>>
    \/ Remount /\ UNCHANGED <<loops, probe, shell>>

Spec == Init /\ [][Next]_vars

\* ------------------------------------------------------------------------
\* The temporal filters on their own
\* ------------------------------------------------------------------------

\* src/src/utils/KalmanFilter.js: new KalmanFilter(Q, R)
UtilKalmanFilter(Q, R) == [Q |-> Q, R |-> R, x |-> Zero, P |-> One, initialized |-> FALSE]

\* src/src/utils/KalmanFilter.js: KalmanFilter.update(measurement)
UtilUpdate(f, measurement) ==
    LET Correct(P1, K, x) ==
            [f EXCEPT !.x = NumAdd(x, NumMul(K, NumSub(measurement, x))),
                      !.P = NumMul(P1, NumSub(One, K)), !.initialized = TRUE]
        Predict(P1, x) == Correct(P1, NumDiv(P1, NumAdd(P1, f.R)), x)
    IN  IF ~f.initialized THEN Predict(NumAdd(One, f.Q), measurement)
        ELSE Predict(NumAdd(f.P, f.Q), f.x)

\* the filters fed: those of the three revisions and the utility class, which
\* part_002 feeds with the pupil size
FilterKinds == Revisions \cup {"util"}

\* the most measurements one eye's filters are fed
MaxFeeds == 3

\* the filters of an eye before the first measurement
FeedFilters(kind) ==
    IF kind = "util" THEN [size |-> UtilKalmanFilter(Rat(1, 10), Int2Num(10))]
    ELSE NewFilters(kind)

\* the revision whose detection supplies the measurements of a kind of filter
FeedSource(kind) == IF kind = "util" THEN "simple" ELSE kind

\* one measurement taken by an eye's filters, as the revision hands it over
FeedStep(kind, filters, previous, raw) ==
    IF kind = "util"
    THEN [filters |-> [size |-> UtilUpdate(filters.size, raw.size)],
          previous |-> previous, entry |-> Undefined]
    ELSE EyeStep(kind, filters, previous, raw)

\* every number the filters of a kind hold
FeedValues(kind, filters) ==
    IF kind = "util" THEN {filters.size.x, filters.size.P}
    ELSE FilterValues(kind, filters)

FilterInit ==
    /\ revision \in FilterKinds
    /\ eyeMode = "both"
    /\ boundMode = "both"
    /\ kalmanFilters = [e \in Eyes |-> FeedFilters(revision)]
    /\ previousPupils = [e \in Eyes |-> Null]
    /\ pupilData = Null
    /\ isStreamActive = TRUE
    /\ lastCall = NoCall
    /\ detections = [e \in Eyes |-> 0]
    /\ fresh = [e \in Eyes |-> TRUE]
    /\ missed = [e \in Eyes |-> FALSE]
    /\ loops = NoLoops
    /\ probe = NoProbe
    /\ ShellIdle

\* the filters of eye e take the measurement of a frame in which the eye looks
\* like scene
Feed(e, scene) ==
    LET Take(raw, step) ==
            /\ kalmanFilters' = [kalmanFilters EXCEPT ![e] = step.filters]
            /\ previousPupils' = [previousPupils EXCEPT ![e] = step.previous]
            /\ lastCall' = [NoCall EXCEPT !.eyeType = e, !.outcome = "fed",
                                          !.scene[e] = scene, !.raw[e] = raw,
                                          !.processed = {e}, !.measured = {e}]
            /\ detections' = [detections EXCEPT ![e] = @ + 1]
        Measure(raw) ==
            /\ Measured(FeedSource(revision), raw)
            /\ Take(raw, FeedStep(revision, kalmanFilters[e], previousPupils[e], raw))
    IN  /\ detections[e] < MaxFeeds
        /\ \A v \in FeedValues(revision, kalmanFilters[e]) :
               IsNum(v) => v.d <= MaxDenominator
        /\ Measure(RawPupils[FeedSource(revision), scene, e, e, "works"])
        /\ UNCHANGED <<revision, eyeMode, boundMode, pupilData, isStreamActive, fresh,
                       missed>>

FilterNext == \E e \in Eyes, scene \in Scenes : Feed(e, scene) /\ UNCHANGED <<loops, probe, shell>>

FilterSpec == FilterInit /\ [][FilterNext]_vars

\* ------------------------------------------------------------------------
\* The frame loops
\* ------------------------------------------------------------------------

\* A loop is "waiting" for the animation frame it requested, "sending" while
\* it awaits faceMesh.send({ image: video }), or "closed" while it awaits a
\* send to a tracker that was closed in the meantime.  raf is the loop whose
\* request rafRef.current (animationFrameRef.current) holds.

\* is there room to follow one more loop
CanStart(l) == \E i \in LoopIds : l.pc[i] = "off"

\* a new loop requests its first animation frame: useCamera's
\* rafRef.current = requestAnimationFrame(loop), App.jsx's processFrame() from
\* the effect on isStreamActive and isMediaPipeInitialized
Started(l) ==
    LET i == CHOOSE i \in LoopIds :
                 l.pc[i] = "off" /\ \A j \in LoopIds : l.pc[j] = "off" => i <= j
    IN  [pc |-> [l.pc EXCEPT ![i] = "waiting"], raf |-> i]

\* cancelAnimationFrame(rafRef.current) in an effect's cleanup: it stops the
\* loop whose request the ref holds if that request is still pending, and
\* nothing when that loop is awaiting its send
Cancelled(l) ==
    IF l.raf # 0 /\ l.pc[l.raf] = "waiting" THEN [l EXCEPT !.pc[l.raf] = "off"] ELSE l

\* faceMeshRef.current.close() in the cleanup of useFaceMesh.js: the frames in
\* flight are no longer delivered
Closed(l) ==
    [l EXCEPT !.pc = [i \in LoopIds |-> IF l.pc[i] = "sending" THEN "closed" ELSE l.pc[i]]]

\* what an eye looks like in the frames the loops send
FrameScenes == {"blank", "pupilA"}

\* after construction: VideoPlayer is mounted, the tracker is loaded and
\* useCamera has started its loop; App.jsx has neither tracker nor stream
FrameInit ==
    /\ revision \in Revisions
    /\ eyeMode = "both"
    /\ boundMode = IF revision = "app" THEN "none" ELSE "both"
    /\ kalmanFilters = [e \in Eyes |-> NewFilters(revision)]
    /\ previousPupils = [e \in Eyes |-> Null]
    /\ pupilData = Null
    /\ isStreamActive = (revision # "app")
    /\ lastCall = NoCall
    /\ detections = [e \in Eyes |-> 0]
    /\ fresh = [e \in Eyes |-> TRUE]
    /\ missed = [e \in Eyes |-> FALSE]
    /\ loops = IF revision = "app" THEN NoLoops ELSE Started(NoLoops)
    /\ probe = NoProbe
    /\ ShellIdle

\* the animation frame of loop i fires.  useCamera's loop calls handleFrame,
\* which sends the frame when the tracker is there; processFrame sends it when
\* the video is ready (its closure holds the isStreamActive and
\* isMediaPipeInitialized of the render that started the loop, both true),
\* and requests the next animation frame otherwise
FrameRequest(i) ==
    /\ loops.pc[i] = "waiting"
    /\ loops' = IF boundMode # "none" /\ isStreamActive
                 THEN [loops EXCEPT !.pc[i] = "sending"]
                 ELSE [loops EXCEPT !.raf = i]
    /\ UNCHANGED <<revision, eyeMode, boundMode, kalmanFilters, previousPupils,
                   pupilData, isStreamActive, lastCall, detections, fresh, missed>>

\* the tracker delivers the results of the frame loop i sent: the results
\* callback runs detect to its end, the send is settled and the loop requests
\* the next animation frame.  After stopCamera the video element has no
\* stream and videoWidth 0
FrameResults(i, sceneLeft, sceneRight, reuse) ==
    /\ loops.pc[i] = "sending"
    /\ Detect(IF isStreamActive THEN "ok" ELSE "zero", "ok",
              [left |-> sceneLeft, right |-> sceneRight], reuse, TRUE)
    /\ loops' = [loops EXCEPT !.pc[i] = "waiting", !.raf = i]

\* a send to a closed tracker settles without results; the loop requests the
\* next animation frame
FrameSettle(i) ==
    /\ loops.pc[i] = "closed"
    /\ loops' = [loops EXCEPT !.pc[i] = "waiting", !.raf = i]
    /\ UNCHANGED <<revision, eyeMode, boundMode, kalmanFilters, previousPupils,
                   pupilData, isStreamActive, lastCall, detections, fresh, missed>>

\* the user picks another mode.  useFaceMesh.js closes the tracker and makes a
\* new one in the same effect flush (OpenCV and FaceMesh are loaded, so
\* loadDependencies awaits nothing and isLoaded ends as it was): handleFrame
\* and with it useCamera's loop stay.  App.jsx touches neither tracker nor loop
FrameSetEyeMode(mode) ==
    /\ SetEyeMode(mode)
    /\ loops' = IF revision = "app" THEN loops ELSE Closed(loops)

\* initializeMediaPipe sets isMediaPipeInitialized: the effect of App.jsx
\* lines 693-703 is cleaned up and run again
FrameInitialize ==
    /\ InitializeMediaPipe
    /\ CanStart(Cancelled(loops))
    /\ loops' = IF isStreamActive THEN Started(Cancelled(loops)) ELSE Cancelled(loops)

\* startCamera sets isStreamActive: the same effect is cleaned up and run again
FrameStartCamera ==
    /\ StartCamera
    /\ CanStart(Cancelled(loops))
    /\ loops' = IF boundMode # "none" THEN Started(Cancelled(loops)) ELSE Cancelled(loops)

\* stopCamera clears isStreamActive: the effect is cleaned up, and run to no
\* effect
FrameStopCamera ==
    /\ StopCamera
    /\ loops' = Cancelled(loops)

\* switchCamera leaves isStreamActive and the effect alone
FrameSwitchCamera ==
    /\ SwitchCamera
    /\ UNCHANGED loops

\* VideoPlayer is unmounted (useCamera's cleanup cancels the pending request,
\* useFaceMesh.js closes the tracker; a loop that survives finds
\* videoRef.current null and sends nothing) and mounted again
FrameRemount ==
    /\ Remount
    /\ loops' = Started(NoLoops)

FrameNext ==
    \/ \E i \in LoopIds : FrameRequest(i) /\ UNCHANGED <<probe, shell>>
    \/ \E i \in LoopIds, sl \in FrameScenes, sr \in FrameScenes,
          reuse \in Reuses(revision) : FrameResults(i, sl, sr, reuse) /\ UNCHANGED <<probe, shell>>
    \/ \E i \in LoopIds : FrameSettle(i) /\ UNCHANGED <<probe, shell>>
    \/ \E mode \in Modes : FrameSetEyeMode(mode) /\ UNCHANGED <<probe, shell>>
    \/ FrameInitialize /\ UNCHANGED <<probe, shell>>
    \/ FrameStartCamera /\ UNCHANGED <<probe, shell>>
    \/ FrameStopCamera /\ UNCHANGED <<probe, shell>>
    \/ FrameSwitchCamera /\ UNCHANGED <<probe, shell>>
    \/ FrameRemount /\ UNCHANGED <<probe, shell>>

FrameSpec == FrameInit /\ [][FrameNext]_vars

\* ------------------------------------------------------------------------
\* The region of an eye, for irises anywhere in and around the frame
\* ------------------------------------------------------------------------

\* the irises examined: centres inside, at and beyond each edge of the frame,
\* radii from a distant eye to one that fills the frame
RegionIrises ==
    {[cx |-> x, cy |-> y, r |-> r] :
        x \in {-60, 2, 160, 318, 325, 390, 400}, y \in {-60, 2, 120, 238, 245},
        r \in {1, 40, 118}}

\* cv.Mat.roi(rect) throws unless rect lies within the image
RoiThrows(rect, cols, rows) ==
    ~ (/\ 0 <= rect.x /\ 0 <= rect.width /\ rect.x + rect.width <= cols
       /\ 0 <= rect.y /\ 0 <= rect.height /\ rect.y + rect.height <= rows)

\* what a call emits for an eye whose step made entry
Emitted(entry) ==
    IF entry = Undefined THEN "nothing"
    ELSE IF entry.center = Null THEN "placeholder"
    ELSE "estimate"

\* analyzePupilPrecise and analyzeEyeAdvanced up to grayImage.roi: the region
\* roi (Null: "return null"), whether it reaches the detection methods and
\* what the call emits for the eye when it does not
HookRegion(rev, roi, filters, previous) ==
    [region |-> roi, handed |-> roi # Null,
     emitted |-> IF roi # Null THEN "generated"
                 ELSE Emitted(EyeStep(rev, filters, previous, Null).entry)]

\* getEyeRegionAndPupil up to grayMat.roi: eyeRegion, whether it reaches
\* grayMat.roi and the detection, and what detectPupils emits when the
\* region is too small or grayMat.roi throws (the catch block)
AppRegion(eyeRegion, width, height, filters, previous) ==
    LET rect == [x |-> eyeRegion.x.n, y |-> eyeRegion.y.n,
                 width |-> eyeRegion.width.n, height |-> eyeRegion.height.n]
        raw == IF AppRegionTooSmall(eyeRegion)
               THEN [Placeholder EXCEPT !.region = eyeRegion]
               ELSE Placeholder
    IN  [region |-> rect, handed |-> ~ AppRegionTooSmall(eyeRegion),
         emitted |-> IF ~ AppRegionTooSmall(eyeRegion) /\ ~ RoiThrows(rect, width, height)
                     THEN "generated"
                     ELSE Emitted(EyeStep("app", filters, previous, raw).entry)]

\* the region the revision cuts for the eye whose iris is g
RegionOf(rev, eye, g, focusMode, filters, previous) ==
    IF rev = "simple"
    THEN HookRegion(rev, RoiOfPoints(IrisLandmarksAt(g), Frame.width, Frame.height),
                    filters, previous)
    ELSE IF rev = "advanced"
    THEN HookRegion(rev, RoiOfContour(ContourLandmarksAt(g), Frame.width, Frame.height),
                    filters, previous)
    ELSE AppRegion(AppEyeRegion(CircleOfPoints(IrisLandmarksAt(g), Frame.width,
                                               Frame.height),
                                IF focusMode = eye THEN 5 ELSE 3,
                                Frame.width, Frame.height),
                   Frame.width, Frame.height, filters, previous)

\* a running engine in any eye mode, about to cut the region of one eye
RegionInit ==
    /\ revision \in Revisions
    /\ eyeMode \in Modes
    /\ boundMode = eyeMode
    /\ kalmanFilters = [e \in Eyes |-> NewFilters(revision)]
    /\ previousPupils = [e \in Eyes |-> Null]
    /\ pupilData = Null
    /\ isStreamActive = TRUE
    /\ lastCall = NoCall
    /\ detections = [e \in Eyes |-> 0]
    /\ fresh = [e \in Eyes |-> TRUE]
    /\ missed = [e \in Eyes |-> FALSE]
    /\ loops = NoLoops
    /\ ShellIdle
    /\ \E e \in Processed(revision, boundMode), g \in RegionIrises :
           probe = [kind |-> "region", eye |-> e, g |-> g, done |-> FALSE,
                    region |-> Null, handed |-> FALSE, emitted |-> "nothing"]

\* the eye's region is computed and passed on, or the eye is given up
ExtractRegion ==
    /\ probe.kind = "region"
    /\ ~ probe.done
    /\ probe' = [kind |-> "region", eye |-> probe.eye, g |-> probe.g, done |-> TRUE]
                    @@ RegionOf(revision, probe.eye, probe.g, boundMode,
                                kalmanFilters[probe.eye], previousPupils[probe.eye])
    /\ UNCHANGED <<revision, eyeMode, boundMode, kalmanFilters, previousPupils,
                   pupilData, isStreamActive, lastCall, detections, fresh, missed,
                   loops, shell>>

RegionNext == ExtractRegion

RegionSpec == RegionInit /\ [][RegionNext]_vars

\* ------------------------------------------------------------------------
\* The choice among the candidates of an eye region
\* ------------------------------------------------------------------------

\* the detection methods in the order in which they run
MethodNames(rev) ==
    IF rev = "simple" THEN <<"adaptive", "otsu", "minval", "contrast">>
    ELSE <<"starburst", "threshold", "hough", "gradient">>

\* the results a method may come back with: none (Null) or a candidate with
\* a confidence and a circularity the method can give (the contour methods
\* score above 0; detectPupilByMinValue gives 0 on a saturated region,
\* starburstPupilDetection NaN on a uniform one; 0.8, 0.9 and 0.7 are the
\* circularities the other methods state)
MethodResults(method) ==
    LET Made(confidences, circularities) ==
            {[cx |-> Zero, cy |-> Zero, diameter |-> Int2Num(d), confidence |-> c,
              circularity |-> r, method |-> method] :
                d \in {8, 20}, c \in confidences, r \in circularities}
    IN  {Null} \cup
        (IF method \in {"adaptive", "otsu", "contrast", "threshold"}
         THEN Made({Rat(1, 4), Rat(1, 2)}, {Rat(1, 2), One})
         ELSE IF method = "minval" THEN Made({Zero, Rat(1, 2), One}, {Rat(8, 10)})
         ELSE IF method = "starburst" THEN Made({NaN, Rat(1, 2), One}, {Rat(8, 10)})
         ELSE IF method = "hough" THEN Made({Rat(7, 10)}, {Rat(9, 10)})
         ELSE Made({Rat(29, 40), One}, {Rat(7, 10)}))

\* the choice of a revision among the results of its methods: the loop of
\* analyzePupilPrecise, or selectBestCandidate on the candidates pushed
Chosen(rev, results) ==
    IF rev = "simple" THEN SimpleBest(results, 1, Null, Zero)
    ELSE SelectBestCandidate(SelectSeq(results, LAMBDA c : c # Null))

\* a running engine whose methods have come back for one eye region
SelectInit ==
    /\ revision \in {"simple", "advanced"}
    /\ eyeMode = "both"
    /\ boundMode = "both"
    /\ kalmanFilters = [e \in Eyes |-> NewFilters(revision)]
    /\ previousPupils = [e \in Eyes |-> Null]
    /\ pupilData = Null
    /\ isStreamActive = TRUE
    /\ lastCall = NoCall
    /\ detections = [e \in Eyes |-> 0]
    /\ fresh = [e \in Eyes |-> TRUE]
    /\ missed = [e \in Eyes |-> FALSE]
    /\ loops = NoLoops
    /\ ShellIdle
    /\ \E r1 \in MethodResults(MethodNames(revision)[1]),
          r2 \in MethodResults(MethodNames(revision)[2]),
          r3 \in MethodResults(MethodNames(revision)[3]),
          r4 \in MethodResults(MethodNames(revision)[4]) :
           probe = [kind |-> "select", results |-> <<r1, r2, r3, r4>>,
                    done |-> FALSE, chosen |-> Null]

\* the best result is picked
SelectCandidate ==
    /\ probe.kind = "select"
    /\ ~ probe.done
    /\ probe' = [probe EXCEPT !.done = TRUE, !.chosen = Chosen(revision, probe.results)]
    /\ UNCHANGED <<revision, eyeMode, boundMode, kalmanFilters, previousPupils,
                   pupilData, isStreamActive, lastCall, detections, fresh, missed,
                   loops, shell>>

SelectNext == SelectCandidate

SelectSpec == SelectInit /\ [][SelectNext]_vars

\* ------------------------------------------------------------------------
\* Properties
\* ------------------------------------------------------------------------

\* the result of the last call has an entry for eye e
HasEntry(e) == lastCall.result # Null /\ lastCall.result[e] # Undefined

\* the result of the last call has an entry for eye e that carries an estimate
Populated(e) == HasEntry(e) /\ lastCall.result[e] # Placeholder

\* a candidate generator produced a candidate for eye e in the last call
CandidateFound(e) ==
    /\ e \in lastCall.processed
    /\ lastCall.raw[e] # Null
    /\ revision = "app" => lastCall.raw[e].center # Null

\* the eyes a call with eye mode mode is asked for
RequestedBy(mode) == IF mode = "both" THEN Eyes ELSE {mode}

\* C1: the result of a detect call has an entry for a requested eye only if a
\* candidate generator produced a candidate for that eye in the frame; without
\* a candidate the entry is absent, never a zero-valued placeholder.
\* App.jsx fills in { size: 0, center: null, region, confidence: 0 }.
C1_EntryOnlyWithCandidate ==
    \A e \in RequestedBy(lastCall.eyeType) :
        (lastCall.outcome = "returned" /\ HasEntry(e)) => CandidateFound(e)

\* C2: in a call with eye mode left no region is computed for the right eye
\* and the result has no populated entry for the right eye, and the same with
\* left and right exchanged, whatever calls and modes came before.
C2_OtherEyeLeftAlone ==
    \A e \in Eyes :
        (lastCall.outcome = "returned" /\ lastCall.eyeType = OtherEye(e))
            => (e \notin lastCall.regions /\ ~Populated(e))

\* C2 happens: a call in mode left finds the left pupil after the right eye
\* was tracked in an earlier call
C2_Witness ==
    /\ lastCall.outcome = "returned"
    /\ lastCall.eyeType = "left"
    /\ "left" \in lastCall.regions /\ Populated("left")
    /\ "right" \in lastCall.tracked

\* C3: for an eye that is being tracked, the first frame without a candidate
\* still returns the eye's last estimate.  No revision retains an estimate:
\* the hook leaves the eye out in that very frame, App.jsx returns zeros.
C3_EstimateRetained ==
    \A e \in lastCall.processed :
        (/\ lastCall.outcome = "returned"
         /\ e \in lastCall.tracked
         /\ e \notin lastCall.missedBefore
         /\ ~CandidateFound(e))
            => Populated(e)

\* the filters of an eye when they take raw as their first measurement
Reinitialised(raw) == EyeStep(revision, NewFilters(revision), Null, raw).filters

\* C4: a frame in which an eye yields no candidate leaves the eye's filters
\* (estimate, error covariance, initialized flag of every channel) as they
\* were; the next detection after such frames is smoothed from those filters
\* and does not start them again from the raw measurement, unless a reset
\* came in between.
C4_MissKeepsFilters ==
    [][\A e \in Eyes :
          /\ (/\ lastCall'.outcome = "returned"
              /\ e \in lastCall'.processed
              /\ ~CandidateFound(e)')
                 => kalmanFilters'[e] = kalmanFilters[e]
          /\ (/\ lastCall'.outcome = "returned"
              /\ e \in lastCall'.measured
              /\ detections'[e] = detections[e] + 1
              /\ Initialized(revision, kalmanFilters[e])
              /\ missed[e])
                 => kalmanFilters'[e] # Reinitialised(lastCall'.raw[e])]_vars

\* C4 happens: a tracked eye missed a frame, is found again, and its estimate
\* is not the raw measurement of the frame
C4_Witness ==
    \E e \in lastCall.measured :
        /\ lastCall.outcome = "returned"
        /\ e \in lastCall.tracked
        /\ e \in lastCall.missedBefore
        /\ lastCall.result[e].size # lastCall.raw[e].size

\* C5: when the video source is stopped and started again all filters are
\* discarded, so the first estimate of an eye after the restart is the raw
\* measurement of its frame.  App.jsx switchCamera starts a new stream and
\* keeps the six filters.
C5_FirstEstimateIsRaw ==
    \A e \in lastCall.first \cap lastCall.measured :
        (lastCall.outcome = "returned" /\ revision \in {"simple", "app"})
            => /\ lastCall.result[e].size = lastCall.raw[e].size
               /\ lastCall.result[e].center = lastCall.raw[e].center

\* the channels of an eye's filters: estimate x, error covariance P and the
\* measurement M the channel reads from raw
Channels(kind, filters, raw) ==
    IF kind = "simple"
    THEN <<[x |-> filters.size.x, P |-> filters.size.P, M |-> raw.size],
           [x |-> filters.x.x, P |-> filters.x.P, M |-> raw.center.x],
           [x |-> filters.y.x, P |-> filters.y.P, M |-> raw.center.y]>>
    ELSE IF kind = "app"
    THEN <<[x |-> filters.Size.x, P |-> filters.Size.P, M |-> raw.size],
           [x |-> filters.X.x, P |-> filters.X.P, M |-> raw.center.x],
           [x |-> filters.Y.x, P |-> filters.Y.P, M |-> raw.center.y]>>
    ELSE IF kind = "util"
    THEN <<[x |-> filters.size.x, P |-> filters.size.P, M |-> raw.size]>>
    ELSE <<[x |-> filters.state[3], P |-> filters.covariance, M |-> Prop(raw, "size")],
           [x |-> filters.state[1], P |-> filters.covariance, M |-> Prop(raw, "x")],
           [x |-> filters.state[2], P |-> filters.covariance, M |-> Prop(raw, "y")]>>

\* C6: feeding a measurement M into a filter channel that holds an estimate
\* never moves the estimate away from M and never raises the error
\* covariance, from whatever state the channel has reached.  The size channel
\* of AdvancedKalmanFilter carries a velocity and overshoots.
C6_EstimateApproaches ==
    [][\A e \in Eyes :
          (/\ lastCall'.outcome = "fed"
           /\ e \in lastCall'.measured
           /\ detections[e] > 0)
              => \A i \in DOMAIN Channels(revision, kalmanFilters[e], lastCall'.raw[e]) :
                     LET before == Channels(revision, kalmanFilters[e], lastCall'.raw[e])[i]
                         after == Channels(revision, kalmanFilters'[e], lastCall'.raw[e])[i]
                     IN  IsNum(before.M)
                            => /\ NumLe(NumAbs(NumSub(after.x, before.M)),
                                        NumAbs(NumSub(before.x, before.M)))
                               /\ NumLe(after.P, before.P)]_vars

\* C7: a detect call for an eye whose landmarks are absent leaves the eye out
\* of the result and does not throw.  App.jsx returns the placeholder entry of
\* C1 for such an eye.
C7_AbsentLandmarksOmitted ==
    \A e \in RequestedBy(lastCall.eyeType) :
        (/\ lastCall.outcome \in {"returned", "threw"}
         /\ lastCall.video = "ok"
         /\ lastCall.landmarks # "null"
         /\ lastCall.scene[e] = "absent")
            => (lastCall.outcome = "returned" /\ ~HasEntry(e))

\* C8: a detect call on a null or zero-sized video, or on a null or empty
\* landmark set, returns an empty result and throws nothing.  The hook reads
\* video.videoWidth of a null video outside its try block.
C8_MalformedInputEmptyResult ==
    (/\ lastCall.outcome \in {"returned", "threw"}
     /\ (lastCall.video # "ok" \/ lastCall.landmarks # "ok"))
        => (lastCall.outcome = "returned" /\ \A e \in Eyes : ~HasEntry(e))

\* is the area of a connected component within minArea .. maxArea of the
\* revision (App.jsx: 8 .. 600 for the focused eye, 15 .. 400 otherwise)
AreaWithin(rev, focused, area) ==
    IF rev = "simple" THEN ~NumLt(area, Int2Num(15)) /\ ~NumGt(area, Int2Num(400))
    ELSE IF rev = "advanced"
    THEN ~NumLt(area, Int2Num(30)) /\ ~NumGt(area, Int2Num(1000))
    ELSE IF focused THEN ~NumLt(area, Int2Num(8)) /\ ~NumGt(area, Int2Num(600))
    ELSE ~NumLt(area, Int2Num(15)) /\ ~NumGt(area, Int2Num(400))

\* the scene without the connected components whose area is out of range
WithinOnly(rev, focused, scene) ==
    [scene EXCEPT !.img.contours =
        SelectSeq(@, LAMBDA c : AreaWithin(rev, focused, c.area))]

\* the candidate of every eye on every scene when the components out of range
\* are taken away
RawPupilsWithin ==
    [rev \in Revisions, scene \in Scenes, eye \in Eyes, eyeType \in Modes,
     reuse \in {"works", "throws"} |->
        RawPupil(rev, WithinOnly(rev, eyeType = eye, SceneOf[scene]), eye, eyeType, reuse)]

\* C9: a connected component with an area below minArea or above maxArea is
\* never the selected candidate of a generator or of the selector: the
\* candidate of every eye is the one found when these components are taken
\* out of the frame.
C9_AreaOutOfRangeNeverSelected ==
    \A e \in lastCall.processed :
        lastCall.outcome = "returned"
            => lastCall.raw[e] = RawPupilsWithin[revision, lastCall.scene[e], e,
                                                 lastCall.eyeType, lastCall.reuse]

\* C9 happens: a pupil is found in a frame that also holds a speck and a
\* large dark region
C9_Witness ==
    \E e \in lastCall.measured :
        /\ lastCall.outcome = "returned"
        /\ lastCall.scene[e] = "mixed"
        /\ \E i \in DOMAIN SceneOf["mixed"].img.contours :
               ~AreaWithin(revision, lastCall.eyeType = e,
                           SceneOf["mixed"].img.contours[i].area)

\* C10: a detect call leaves the filters and the stored previous estimate of
\* an eye it was not asked for, or for which it found no candidate, as they
\* were before the call.
C10_OtherEyeFiltersKept ==
    [][\A e \in Eyes :
          (/\ lastCall'.outcome = "returned"
           /\ (e \notin RequestedBy(lastCall'.eyeType) \/ ~CandidateFound(e)'))
              => /\ kalmanFilters'[e] = kalmanFilters[e]
                 /\ previousPupils'[e] = previousPupils[e]]_vars

\* C10 happens: in a call for both eyes a tracked eye has no candidate while
\* the other eye is measured
C10_Witness ==
    \E e \in lastCall.tracked :
        /\ lastCall.outcome = "returned"
        /\ lastCall.eyeType = "both"
        /\ ~CandidateFound(e)
        /\ OtherEye(e) \in lastCall.measured

\* C11: the eye mode can be changed between invocations: a detect invocation
\* on a frame processes exactly the eyes of the mode the user has selected
\* when it runs, from the first invocation after a change on.  The tracker of
\* App.jsx keeps calling the onFaceMeshResults of the render in which it was
\* initialised, whose detectPupils sees the focus mode of that render.
C11_NewModeProcessed ==
    (/\ lastCall.outcome = "returned"
     /\ lastCall.video = "ok"
     /\ lastCall.landmarks = "ok")
        => lastCall.processed = RequestedBy(lastCall.selected)

\* C12: frame invocations never overlap: at most one frame is in flight (sent
\* to the tracker, its results callback not yet run to the end) at any time,
\* under every order of animation frames, effect runs and results.  A
\* processFrame loop of App.jsx that awaits its send while the stream is
\* stopped and started is not cancelled, and runs beside the new loop.
C12_OneFrameInFlight ==
    Cardinality({i \in LoopIds : loops.pc[i] = "sending"}) <= 1

\* the stability expected of an estimate cur whose eye had the estimate
\* prev in its previous frame (Null: none), with K1 = 10 and K2 = 5
StabilityOf(cur, prev) ==
    IF prev = Null THEN Rat(1, 2)
    ELSE NumDiv(NumAdd(NumMax(Zero, NumSub(One, NumDiv(
                           Hypot(NumSub(cur.center.x, prev.center.x),
                                 NumSub(cur.center.y, prev.center.y)), Int2Num(10)))),
                       NumMax(Zero, NumSub(One, NumDiv(
                           NumAbs(NumSub(cur.size, prev.size)), Int2Num(5))))),
                Int2Num(2))

\* C13: every estimate emitted carries a stability in [0, 1]: 0.5 in the
\* first frame of an eye, otherwise the average of max(0, 1 - centerDelta/K1)
\* and max(0, 1 - sizeDelta/K2) against the eye's previous frame.  The
\* entries of usePupilDetection.js and of App.jsx have no stability.
C13_StabilityCarried ==
    [][\A e \in Eyes :
          (/\ lastCall'.outcome = "returned"
           /\ e \in lastCall'.measured
           /\ detections'[e] = detections[e] + 1)
              => /\ IsNum(Prop(lastCall'.result[e], "stability"))
                 /\ NumLe(Zero, Prop(lastCall'.result[e], "stability"))
                 /\ NumLe(Prop(lastCall'.result[e], "stability"), One)
                 /\ Prop(lastCall'.result[e], "stability")
                        = StabilityOf(lastCall'.raw[e], previousPupils[e])]_vars

\* v is a number of [0, 1]
InUnit(v) == IsNum(v) /\ NumLe(Zero, v) /\ NumLe(v, One)

\* C14: every estimate emitted (and the candidate it was made from) has a
\* confidence in [0, 1] and a circularity in [0, 1].  App.jsx scores on a
\* 0..100 scale and its entries have no circularity.
C14_ScoresInUnitRange ==
    \A e \in lastCall.measured :
        lastCall.outcome = "returned"
            => /\ InUnit(Prop(lastCall.result[e], "confidence"))
               /\ InUnit(Prop(lastCall.result[e], "circularity"))
               /\ InUnit(Prop(lastCall.raw[e], "confidence"))
               /\ InUnit(Prop(lastCall.raw[e], "circularity"))

\* C15: every region handed on to the detection lies within the frame,
\* wherever the eye's landmarks are.  App.jsx clamps the corner but takes
\* the extent from the unclamped corner.
C15_RegionWithinFrame ==
    (probe.kind = "region" /\ probe.done /\ probe.handed)
        => /\ probe.region.x >= 0
           /\ probe.region.y >= 0
           /\ probe.region.x + probe.region.width <= Frame.width
           /\ probe.region.y + probe.region.height <= Frame.height

\* the initialized flags of an eye's filters (the filters of App.jsx have none)
FlagsSet(kind, filters) ==
    IF kind = "simple" THEN \A c \in {"size", "x", "y"} : filters[c].initialized
    ELSE IF kind = "util" THEN filters.size.initialized
    ELSE IF kind = "advanced" THEN filters.initialized
    ELSE TRUE

\* the initial uncertainty the filters of a kind are constructed with
InitialUncertainty(kind) == IF kind = "advanced" THEN Int2Num(100) ELSE One

\* C16: the first measurement M given to a filter channel leaves the channel
\* with estimate M, the initial error covariance and initialized set.
\* KalmanFilter.update of utils/KalmanFilter.js and the steps of App.jsx go on
\* to predict and correct in the same update, which lowers the covariance.
C16_FirstMeasurementInitialises ==
    [][\A e \in Eyes :
          (/\ lastCall'.outcome = "fed"
           /\ e \in lastCall'.measured
           /\ detections[e] = 0)
              => /\ FlagsSet(revision, kalmanFilters'[e])
                 /\ \A i \in DOMAIN Channels(revision, kalmanFilters'[e], lastCall'.raw[e]) :
                        LET after == Channels(revision, kalmanFilters'[e], lastCall'.raw[e])[i]
                        IN  /\ after.x = after.M
                            /\ after.P = InitialUncertainty(revision)]_vars

\* the constants Q and R of the channels of an eye's filters, in the order of
\* Channels
ChannelNoise(kind, filters) ==
    IF kind = "simple"
    THEN <<[Q |-> filters.size.Q, R |-> filters.size.R],
           [Q |-> filters.x.Q, R |-> filters.x.R],
           [Q |-> filters.y.Q, R |-> filters.y.R]>>
    ELSE IF kind = "app"
    THEN <<[Q |-> filters.Size.Q, R |-> filters.Size.R],
           [Q |-> filters.X.Q, R |-> filters.X.R],
           [Q |-> filters.Y.Q, R |-> filters.Y.R]>>
    ELSE IF kind = "util"
    THEN <<[Q |-> filters.size.Q, R |-> filters.size.R]>>
    ELSE [i \in 1..3 |-> [Q |-> filters.processNoise, R |-> filters.measurementNoise]]

\* the channel (x, P) after one measurement m by the scalar Kalman equations:
\* P1 = P + Q, K = P1 / (P1 + R), x + K (m - x), P1 (1 - K)
KalmanEquations(x, P, Q, R, m) ==
    LET Correct(P1, K) ==
            [x |-> NumAdd(x, NumMul(K, NumSub(m, x))), P |-> NumMul(P1, NumSub(One, K))]
        Predict(P1) == Correct(P1, NumDiv(P1, NumAdd(P1, R)))
    IN  Predict(NumAdd(P, Q))

\* C17: a measurement m taken by an initialised channel (x, P) with constants
\* Q and R gives P1 = P + Q, K = P1 / (P1 + R), the estimate x + K (m - x)
\* and the error covariance P1 (1 - K), in every filter of an eye.
\* AdvancedKalmanFilter corrects with the fixed gain 0.3 after adding a velocity
\* and never touches its covariance.
C17_KalmanEquationsFollowed ==
    [][\A e \in Eyes :
          (/\ lastCall'.outcome = "fed"
           /\ e \in lastCall'.measured
           /\ detections[e] > 0)
              => \A i \in DOMAIN Channels(revision, kalmanFilters[e], lastCall'.raw[e]) :
                     LET before == Channels(revision, kalmanFilters[e], lastCall'.raw[e])[i]
                         after == Channels(revision, kalmanFilters'[e], lastCall'.raw[e])[i]
                         noise == ChannelNoise(revision, kalmanFilters[e])[i]
                     IN  IsNum(before.M)
                            => [x |-> after.x, P |-> after.P]
                                  = KalmanEquations(before.x, before.P, noise.Q, noise.R,
                                                    before.M)]_vars

\* the candidates among the results of the methods, in the order of the methods
CandidatesOf(results) == SelectSeq(results, LAMBDA c : c # Null)

\* C18: the choice among no candidates is nothing, and the choice among
\* exactly one candidate is that candidate, whatever its confidence.  The
\* loop of analyzePupilPrecise only takes a result whose confidence exceeds 0.
C18_SoleCandidateReturned ==
    (probe.kind = "select" /\ probe.done)
        => /\ Len(CandidatesOf(probe.results)) = 0 => probe.chosen = Null
           /\ Len(CandidatesOf(probe.results)) = 1
                  => probe.chosen = CandidatesOf(probe.results)[1]

\* the score by which a revision ranks a candidate: analyzePupilPrecise ranks
\* by confidence alone (weights 1, 0, 0 and no bonus), selectBestCandidate by
\* 0.4, 0.3, 0.2 and the bonus 0.1
RankingScore(rev, candidate) ==
    IF rev = "simple" THEN candidate.confidence ELSE CandidateScore(candidate)

MinRegionSide(rev) == IF rev = "app" THEN 10 ELSE 0

\* C20: an eye whose computed region has a width or a height at or below the
\* minimum yields nothing: no method runs on it and the frame carries neither
\* an estimate nor a placeholder for it.  App.jsx returns the placeholder
\* entry with the region, and passes on a region of exactly 10 px.
C20_SmallRegionYieldsNothing ==
    (/\ probe.kind = "region"
     /\ probe.done
     /\ \/ probe.region = Null
        \/ probe.region.width <= MinRegionSide(revision)
        \/ probe.region.height <= MinRegionSide(revision))
        => ~ probe.handed /\ probe.emitted = "nothing"

\* a diameter within the absolute range of 4 to 80 pixels
SaneDiameter(d) == IsNum(d) /\ NumLe(Int2Num(4), d) /\ NumLe(d, Int2Num(80))

\* C21: no candidate with a diameter outside the absolute pixel range, a
\* diameter of 0 included, is chosen for an eye.  No method tests the diameter;
\* starburstPupilDetection returns the diameter 0 on a region without gradient.
C21_DiameterInRange ==
    \A e \in lastCall.measured :
        lastCall.outcome = "returned" => SaneDiameter(lastCall.raw[e].size)

\* C22: a candidate whose computation divides by zero is dropped by the
\* method that made it: the candidate chosen for an eye has a finite centre,
\* diameter and confidence.  starburstPupilDetection divides by an average
\* gradient of 0 and returns the candidate with the confidence NaN.
C22_DegenerateDiscarded ==
    \A e \in lastCall.measured :
        lastCall.outcome = "returned"
            => /\ IsNum(lastCall.raw[e].center.x)
               /\ IsNum(lastCall.raw[e].center.y)
               /\ IsNum(lastCall.raw[e].size)
               /\ IsNum(lastCall.raw[e].confidence)

\* v lies between a and b, the ends included
Between(v, a, b) ==
    \/ NumLe(a, v) /\ NumLe(v, b)
    \/ NumLe(b, v) /\ NumLe(v, a)

\* C23: in every update of a filter channel the new estimate lies between
\* the previous estimate (0 before the first measurement) and the
\* measurement.  AdvancedKalmanFilter adds its velocity before correcting and
\* leaves the interval.
C23_EstimateBetween ==
    [][\A e \in Eyes :
          (lastCall'.outcome = "fed" /\ e \in lastCall'.measured)
              => \A i \in DOMAIN Channels(revision, kalmanFilters'[e], lastCall'.raw[e]) :
                     LET after == Channels(revision, kalmanFilters'[e], lastCall'.raw[e])[i]
                     IN  IsNum(after.M)
                            => Between(after.x,
                                       IF detections[e] = 0 THEN Zero
                                       ELSE Channels(revision, kalmanFilters[e],
                                                     lastCall'.raw[e])[i].x,
                                       after.M)]_vars

\* ------------------------------------------------------------------------
\* The recording of App.jsx and of the single-file page (part_004)
\* ------------------------------------------------------------------------

\* the engine's variables
engine == <<revision, eyeMode, boundMode, kalmanFilters, previousPupils, pupilData,
            isStreamActive, lastCall, detections, fresh, missed, loops, probe>>

\* the engine of App.jsx at rest, while the page around it is followed
EngineIdle ==
    /\ revision = "app"
    /\ eyeMode = "both"
    /\ boundMode = "both"
    /\ kalmanFilters = [e \in Eyes |-> NewFilters("app")]
    /\ previousPupils = [e \in Eyes |-> Null]
    /\ pupilData = Null
    /\ isStreamActive = FALSE
    /\ lastCall = NoCall
    /\ detections = [e \in Eyes |-> 0]
    /\ fresh = [e \in Eyes |-> TRUE]
    /\ missed = [e \in Eyes |-> FALSE]
    /\ loops = NoLoops
    /\ probe = NoProbe

\* the pages that record
RecordingPages == {"App.jsx", "part_004"}

\* elapsed >= 5 seconds, in periods of the 100 ms interval
StopAfter == 50

\* how far the clock is followed, in periods of 100 ms
MaxClock == 56

\* how many pupil results are followed
MaxResults == 3

\* what a callback of the present render would see
SeenByRender(r) == [isOpenCVLoaded |-> r.isOpenCVLoaded, isRecording |-> r.isRecording]

\* what the results callback handed to faceMesh.onResults sees: the state of
\* the render in which initializeMediaPipe registered it
SeenByCallback(r) == r.registered

\* the recording timer effect after a render: it runs again when one of its
\* dependencies changed.  In App.jsx stopRecording is one, and stopRecording
\* is made anew whenever recordingData.length changes
TimerEffect(old, new) ==
    LET again == \/ old.isRecording # new.isRecording
                 \/ /\ new.page = "App.jsx"
                    /\ Len(old.recordingData) # Len(new.recordingData)
    IN  IF ~ again THEN new
        ELSE IF new.isRecording
             THEN [new EXCEPT !.recordingStartTime = new.now,
                              !.recordingData = <<>>,
                              !.interval = TRUE]
             ELSE [new EXCEPT !.interval = FALSE]

RecordInit ==
    /\ EngineIdle
    /\ camera = Unfollowed
    /\ cameraEffect = Unfollowed
    /\ loader = Unfollowed
    /\ \E page \in RecordingPages :
           recorder = [kind |-> "recorder", page |-> page,
                       isOpenCVLoaded |-> FALSE,
                       isMediaPipeInitialized |-> FALSE,
                       registered |-> Null,
                       isRecording |-> FALSE,
                       recordingData |-> <<>>,
                       recordingStartTime |-> 0,
                       interval |-> FALSE,
                       now |-> 0,
                       results |-> 0,
                       since |-> 0,        \* when startRecording ran
                       produced |-> <<>>,  \* the results since then
                       stopped |-> FALSE]  \* the last step stopped a recording

\* the OpenCV script reports that it is ready
RecOpenCVLoaded ==
    /\ ~ recorder.isOpenCVLoaded
    /\ recorder' = [recorder EXCEPT !.isOpenCVLoaded = TRUE, !.stopped = FALSE]

\* initializeMediaPipe: the results callback of this render is registered
RecInitializeMediaPipe ==
    /\ ~ recorder.isMediaPipeInitialized
    /\ recorder' = [recorder EXCEPT !.registered = SeenByRender(recorder),
                                    !.isMediaPipeInitialized = TRUE,
                                    !.stopped = FALSE]

\* startRecording, from the button that both flags enable
RecStartRecording ==
    /\ recorder.isOpenCVLoaded
    /\ recorder.isMediaPipeInitialized
    /\ ~ recorder.isRecording
    /\ recorder.now + StopAfter < MaxClock
    /\ recorder' = TimerEffect(recorder,
                               [recorder EXCEPT !.isRecording = TRUE,
                                                !.since = recorder.now,
                                                !.produced = <<>>,
                                                !.stopped = FALSE])

\* stopRecording, from the button
RecStopRecording ==
    /\ recorder.isRecording
    /\ recorder' = TimerEffect(recorder,
                               [recorder EXCEPT !.isRecording = FALSE,
                                                !.interval = FALSE,
                                                !.stopped = TRUE])

\* stopCamera, as far as the recording goes
RecStopCamera ==
    /\ recorder' = TimerEffect(recorder,
                               [recorder EXCEPT
                                    !.isRecording = FALSE,
                                    !.recordingData =
                                        IF recorder.page = "App.jsx" THEN <<>> ELSE @,
                                    !.stopped = recorder.isRecording])

\* 100 ms pass; the interval, when one runs, computes elapsed and stops the
\* recording at 5 seconds
RecTick ==
    /\ recorder.now < MaxClock
    /\ LET later == [recorder EXCEPT !.now = @ + 1, !.stopped = FALSE]
       IN  recorder' =
               IF later.interval /\ later.now - later.recordingStartTime >= StopAfter
               THEN TimerEffect(later, [later EXCEPT !.isRecording = FALSE,
                                                     !.interval = FALSE,
                                                     !.stopped = later.isRecording])
               ELSE later

\* FaceMesh hands a face to the registered callback, which detects the pupils
\* and records them as the flags it sees tell it to
RecResults ==
    /\ recorder.registered # Null
    /\ recorder.results < MaxResults
    /\ LET seen == SeenByCallback(recorder)
           detects == IF recorder.page = "App.jsx" THEN seen.isOpenCVLoaded
                      ELSE seen.isOpenCVLoaded /\ seen.isRecording
           id == recorder.results + 1
           taken == [recorder EXCEPT
                        !.results = id,
                        !.stopped = FALSE,
                        !.produced = IF detects /\ recorder.isRecording
                                     THEN Append(@, id) ELSE @,
                        !.recordingData = IF detects /\ seen.isRecording
                                          THEN Append(@, id) ELSE @]
       IN  recorder' = TimerEffect(recorder, taken)

RecordNext ==
    \/ RecOpenCVLoaded /\ UNCHANGED <<engine, camera, cameraEffect, loader>>
    \/ RecInitializeMediaPipe /\ UNCHANGED <<engine, camera, cameraEffect, loader>>
    \/ RecStartRecording /\ UNCHANGED <<engine, camera, cameraEffect, loader>>
    \/ RecStopRecording /\ UNCHANGED <<engine, camera, cameraEffect, loader>>
    \/ RecStopCamera /\ UNCHANGED <<engine, camera, cameraEffect, loader>>
    \/ RecTick /\ UNCHANGED <<engine, camera, cameraEffect, loader>>
    \/ RecResults /\ UNCHANGED <<engine, camera, cameraEffect, loader>>

RecordSpec == RecordInit /\ [][RecordNext]_vars

\* the clock keeps running
RecordFairSpec ==
    RecordSpec /\ WF_vars(RecTick /\ UNCHANGED <<engine, camera, cameraEffect, loader>>)

C25_RecordedAllResults ==
    recorder.stopped => recorder.recordingData = recorder.produced

\* ------------------------------------------------------------------------
\* The camera of App.jsx and of the camera page (part_002)
\* ------------------------------------------------------------------------

\* how many streams getUserMedia hands out
MaxStreams == 4

\* the pages that hold a camera stream
CameraPages == {"App.jsx", "part_002"}

FacingModes == {"user", "environment"}

\* setFacingMode(prev => prev === 'user' ? 'environment' : 'user')
OtherFacing(mode) == IF mode = "user" THEN "environment" ELSE "user"

\* streamRef.current.getTracks().forEach(track => track.stop()), when
\* streamRef.current is set: the tracks end, the reference stays
TracksStopped(c) == [c EXCEPT !.live = @ \ {c.streamRef}]

\* startCamera up to its first await: the tracks of the held stream are
\* stopped and getUserMedia is asked for the facingMode of the render the
\* function belongs to
CameraBegun(c) ==
    [TracksStopped(c) EXCEPT !.isLoading = TRUE,
                             !.pc = "getUserMedia",
                             !.asked = c.facingMode]

\* the catch and finally blocks of startCamera
CameraFailed(c) ==
    [TracksStopped(c) EXCEPT !.streamRef = 0, !.isLoading = FALSE, !.pc = "idle"]

CameraInit ==
    /\ EngineIdle
    /\ recorder = Unfollowed
    /\ cameraEffect = Unfollowed
    /\ loader = Unfollowed
    /\ \E page \in CameraPages :
         camera = [kind |-> "camera", page |-> page,
                 facingMode |-> "user",
                 isStreamActive |-> FALSE,
                 isLoading |-> FALSE,
                 streamRef |-> 0,        \* 0 for null
                 live |-> {},            \* the streams whose tracks are live
                 streams |-> 0,          \* the streams handed out so far
                 pc |-> "idle",          \* where the startCamera in flight is
                 asked |-> "user"]       \* the facingMode last asked for

\* startCamera, from the button shown while no stream is active
CamStartCamera ==
    /\ ~ camera.isStreamActive
    /\ ~ camera.isLoading
    /\ camera.streams < MaxStreams
    /\ camera' = CameraBegun(camera)

\* switchCamera, from the button enabled while nothing loads
CamSwitchCamera ==
    /\ ~ camera.isLoading
    /\ camera.isStreamActive => camera.streams < MaxStreams
    /\ camera' = [(IF camera.isStreamActive THEN CameraBegun(camera) ELSE camera)
                      EXCEPT !.facingMode = OtherFacing(@)]

\* getUserMedia settles
CamGetUserMedia(granted) ==
    /\ camera.pc = "getUserMedia"
    /\ camera' = IF granted
                 THEN [camera EXCEPT !.streams = @ + 1,
                                     !.live = @ \cup {camera.streams + 1},
                                     !.streamRef = camera.streams + 1,
                                     !.pc = "metadata"]
                 ELSE CameraFailed(camera)

\* onloadedmetadata fires, or onerror or the 10 second timeout does
CamLoadedMetadata(loaded) ==
    /\ camera.pc = "metadata"
    /\ camera' = IF loaded THEN [camera EXCEPT !.pc = "play"]
                 ELSE CameraFailed(camera)

\* videoRef.current.play() settles; its failure is caught and logged
CamPlay(played) ==
    /\ camera.pc = "play"
    /\ camera' = [camera EXCEPT !.isStreamActive = TRUE,
                                !.isLoading = FALSE,
                                !.pc = "idle"]

\* stopCamera, from the button shown while a stream is active
CamStopCamera ==
    /\ camera.isStreamActive
    /\ camera' = [TracksStopped(camera) EXCEPT !.streamRef = 0,
                                               !.isStreamActive = FALSE]

CameraNext ==
    \/ CamStartCamera /\ UNCHANGED <<engine, recorder, cameraEffect, loader>>
    \/ CamSwitchCamera /\ UNCHANGED <<engine, recorder, cameraEffect, loader>>
    \/ \E granted \in BOOLEAN :
           CamGetUserMedia(granted) /\ UNCHANGED <<engine, recorder, cameraEffect, loader>>
    \/ \E loaded \in BOOLEAN :
           CamLoadedMetadata(loaded) /\ UNCHANGED <<engine, recorder, cameraEffect, loader>>
    \/ \E played \in BOOLEAN :
           CamPlay(played) /\ UNCHANGED <<engine, recorder, cameraEffect, loader>>
    \/ CamStopCamera /\ UNCHANGED <<engine, recorder, cameraEffect, loader>>

CameraSpec == CameraInit /\ [][CameraNext]_vars

\* C26: while isStreamActive is true, streamRef holds a stream whose tracks
\* are live
C26_ActiveImpliesStreamHeld ==
    camera.isStreamActive
        => camera.streamRef # 0 /\ camera.streamRef \in camera.live

\* C27: a switchCamera made while a stream is active asks getUserMedia for
\* the new facing mode
C27_SwitchRequestsNewFacing ==
    [][(camera.isStreamActive /\ camera'.facingMode # camera.facingMode)
           => camera'.asked = camera'.facingMode]_vars

\* ------------------------------------------------------------------------
\* The effect of useCamera (part_000)
\* ------------------------------------------------------------------------

\* how many runs of the effect are followed
MaxRuns == 2

\* how many animation frames a run's loop asks for
MaxFrames == 3

EffectRuns == 1..MaxRuns

\* a run that has not begun
NoRun == [pc |-> "unstarted", cleaned |-> FALSE, frames |-> 0]

\* cancelAnimationFrame(rafRef.current), when rafRef.current is set: the
\* request it names is dropped if it has not fired yet
RafCancelled(runs, raf) ==
    IF raf # Null /\ runs[raf.run].pc = "scheduled" /\ runs[raf.run].frames = raf.frame
    THEN [runs EXCEPT ![raf.run].pc = "cancelled"]
    ELSE runs

\* rafRef.current = requestAnimationFrame(loop) in run k
Requested(f, k) ==
    [f EXCEPT !.runs[k].pc = "scheduled",
              !.runs[k].frames = @ + 1,
              !.rafRef = [run |-> k, frame |-> f.runs[k].frames + 1]]

EffectInit ==
    /\ EngineIdle
    /\ recorder = Unfollowed
    /\ camera = Unfollowed
    /\ loader = Unfollowed
    /\ cameraEffect = [kind |-> "effect",
                       runs |-> [k \in EffectRuns |-> NoRun],
                       streamRef |-> 0,     \* 0 for null; run k obtains stream k
                       rafRef |-> Null,
                       live |-> {},         \* the streams whose tracks are live
                       mounted |-> TRUE,    \* videoRef.current is set
                       late |-> {}]         \* runs whose onFrame was invoked
                                            \* after their cleanup

\* the effect runs: on mount, and again after the cleanup that a change of
\* videoRef or onFrame brings
EffRun(k) ==
    /\ cameraEffect.mounted
    /\ cameraEffect.runs[k].pc = "unstarted"
    /\ k > 1 => cameraEffect.runs[k - 1].cleaned
    /\ cameraEffect' = [cameraEffect EXCEPT !.runs[k].pc = "getUserMedia"]

\* the cleanup of the run in force, at a change of dependencies or at unmount
EffCleanup(k, unmount) ==
    /\ cameraEffect.runs[k].pc # "unstarted"
    /\ ~ cameraEffect.runs[k].cleaned
    /\ cameraEffect' =
           [cameraEffect EXCEPT
               !.runs = [RafCancelled(cameraEffect.runs, cameraEffect.rafRef)
                            EXCEPT ![k].cleaned = TRUE],
               !.live = @ \ {cameraEffect.streamRef},
               !.mounted = ~ unmount]

\* getUserMedia of run k settles
EffGetUserMedia(k, granted) ==
    /\ cameraEffect.runs[k].pc = "getUserMedia"
    /\ cameraEffect' =
           IF granted
           THEN Requested([cameraEffect EXCEPT !.streamRef = k, !.live = @ \cup {k}], k)
           ELSE [cameraEffect EXCEPT !.runs[k].pc = "failed"]

\* the animation frame of run k fires: loop calls the onFrame of its run when
\* the video element is there, and asks for the next frame at once otherwise
EffFrame(k) ==
    /\ cameraEffect.runs[k].pc = "scheduled"
    /\ cameraEffect.mounted \/ cameraEffect.runs[k].frames < MaxFrames
    /\ cameraEffect' =
           IF cameraEffect.mounted
           THEN [cameraEffect EXCEPT
                    !.runs[k].pc = "onFrame",
                    !.late = IF cameraEffect.runs[k].cleaned THEN @ \cup {k} ELSE @]
           ELSE Requested(cameraEffect, k)

\* the awaited onFrame of run k settles
EffSettle(k, resolved) ==
    /\ cameraEffect.runs[k].pc = "onFrame"
    /\ cameraEffect.runs[k].frames < MaxFrames
    /\ cameraEffect' =
           IF resolved THEN Requested(cameraEffect, k)
           ELSE [cameraEffect EXCEPT !.runs[k].pc = "failed"]

EffectNext ==
    \/ \E k \in EffectRuns : EffRun(k) /\ UNCHANGED <<engine, recorder, camera, loader>>
    \/ \E k \in EffectRuns, unmount \in BOOLEAN :
           EffCleanup(k, unmount) /\ UNCHANGED <<engine, recorder, camera, loader>>
    \/ \E k \in EffectRuns, granted \in BOOLEAN :
           EffGetUserMedia(k, granted) /\ UNCHANGED <<engine, recorder, camera, loader>>
    \/ \E k \in EffectRuns : EffFrame(k) /\ UNCHANGED <<engine, recorder, camera, loader>>
    \/ \E k \in EffectRuns, resolved \in BOOLEAN :
           EffSettle(k, resolved) /\ UNCHANGED <<engine, recorder, camera, loader>>

EffectSpec == EffectInit /\ [][EffectNext]_vars

\* C28: once the cleanup of a run of the effect has run, the run's loop does
\* not invoke onFrame again and the stream the run obtained is not live
C28_NothingAfterCleanup ==
    \A k \in EffectRuns :
        cameraEffect.runs[k].cleaned
            => k \notin cameraEffect.late /\ k \notin cameraEffect.live

\* ------------------------------------------------------------------------
\* The loading of OpenCV and MediaPipe (utils/openCVLoader.js, useFaceMesh.js)
\* ------------------------------------------------------------------------

\* how many callers of the loader are followed
MaxCallers == 2

Callers == 1..MaxCallers

\* the files that hold a loadOpenCV
LoaderFiles == {"openCVLoader.js", "useFaceMesh.js"}

\* a caller that has not called yet
NoCaller == [pc |-> "idle", cvRole |-> "none", mpRole |-> "none", isMounted |-> TRUE]

\* what a script element in the document can be up to: being fetched, run
\* and about to set its global, run without ever setting it, or failed
ScriptStates == {"loading", "loaded", "dud", "failed"}

\* a loader that appends whatever it finds
AppendsAlways(l) == TRUE

\* whether a loadOpenCV call creates and appends a script element.
\* openCVLoader.js asks its own openCVLoaded and openCVPromise; useFaceMesh.js
\* asks window.cv and the document
AppendsScript(l) ==
    IF l.file = "openCVLoader.js"
    THEN ~ l.openCVLoaded /\ l.openCVPromise = "none"
    ELSE ~ l.cv /\ l.cvScript = "none"

\* the promise of a loader call, from the script it waits for, the global it
\* polls every 100 ms and its role: the owner appended the script and holds
\* its onload and onerror, a poller found the script in the document
PromiseOf(script, global, role) ==
    IF role = "owner"
    THEN IF script = "failed" THEN "rejected"
         ELSE IF script \in {"loaded", "dud"} /\ global THEN "resolved"
         ELSE "pending"
    ELSE IF global THEN "resolved" ELSE "pending"

\* loadMediaPipe as called by caller c, and the await on it
MediaPipeAwaited(l, c) ==
    IF l.FaceMesh THEN [l EXCEPT !.callers[c].pc = "initialize"]
    ELSE IF l.mpScript # "none"
         THEN [l EXCEPT !.callers[c].pc = "awaitMediaPipe",
                        !.callers[c].mpRole = "poller"]
         ELSE [l EXCEPT !.callers[c].pc = "awaitMediaPipe",
                        !.callers[c].mpRole = "owner",
                        !.mpScript = "loading"]

\* loadDependencies of caller c after OpenCV is there
AfterOpenCV(l, c) ==
    IF l.file = "openCVLoader.js" THEN [l EXCEPT !.callers[c].pc = "done"]
    ELSE IF ~ l.callers[c].isMounted THEN [l EXCEPT !.callers[c].pc = "left"]
    ELSE MediaPipeAwaited(l, c)

\* the catch block of loadDependencies, or the caller's own for openCVLoader.js
Caught(l, c) ==
    [l EXCEPT !.callers[c].pc = "error",
              !.error = IF l.callers[c].isMounted THEN TRUE ELSE @,
              !.isLoaded = IF l.callers[c].isMounted THEN FALSE ELSE @]

LoaderInit ==
    /\ EngineIdle
    /\ recorder = Unfollowed
    /\ camera = Unfollowed
    /\ cameraEffect = Unfollowed
    /\ \E file \in LoaderFiles, tag \in {"none"} \cup ScriptStates :
           loader = [kind |-> "loader", file |-> file,
                     cvScript |-> tag,          \* the OpenCV script waited for
                     cv |-> FALSE,              \* window.cv && window.cv.Mat
                     appended |-> 0,            \* script elements appended
                     openCVLoaded |-> FALSE,
                     openCVPromise |-> "none",
                     mpScript |-> "none",
                     FaceMesh |-> FALSE,        \* window.FaceMesh
                     callers |-> [c \in Callers |-> NoCaller],
                     isLoaded |-> FALSE,
                     error |-> FALSE]           \* error is not null

\* caller c calls loadOpenCV: directly for openCVLoader.js, from the
\* loadDependencies of an effect run for useFaceMesh.js
LoadCall(c) ==
    /\ loader.callers[c].pc = "idle"
    /\ loader' =
           IF loader.file = "openCVLoader.js"
           THEN IF loader.openCVLoaded THEN [loader EXCEPT !.callers[c].pc = "done"]
                ELSE IF AppendsScript(loader)
                     THEN [loader EXCEPT !.callers[c].pc = "awaitOpenCV",
                                         !.callers[c].cvRole = "owner",
                                         !.openCVPromise = "pending",
                                         !.cvScript = "loading",
                                         !.appended = @ + 1]
                     ELSE [loader EXCEPT !.callers[c].pc = "awaitOpenCV",
                                         !.callers[c].cvRole = "sharer"]
           ELSE IF loader.cv THEN AfterOpenCV(loader, c)
                ELSE IF AppendsScript(loader)
                     THEN [loader EXCEPT !.callers[c].pc = "awaitOpenCV",
                                         !.callers[c].cvRole = "owner",
                                         !.cvScript = "loading",
                                         !.appended = @ + 1]
                     ELSE [loader EXCEPT !.callers[c].pc = "awaitOpenCV",
                                         !.callers[c].cvRole = "poller"]

\* the browser is done with the OpenCV script
LoadScriptSettles(outcome) ==
    /\ loader.cvScript = "loading"
    /\ loader' = [loader EXCEPT !.cvScript = outcome]

\* the OpenCV runtime has initialised: window.cv.Mat is there
LoadCvReady ==
    /\ loader.cvScript = "loaded"
    /\ ~ loader.cv
    /\ loader' = [loader EXCEPT !.cv = TRUE]

\* the promise of openCVLoader.js settles
LoadPromiseSettles ==
    /\ loader.file = "openCVLoader.js"
    /\ loader.openCVPromise = "pending"
    /\ PromiseOf(loader.cvScript, loader.cv, "owner") # "pending"
    /\ loader' = [loader EXCEPT
                      !.openCVPromise = PromiseOf(loader.cvScript, loader.cv, "owner"),
                      !.openCVLoaded = (loader.cvScript # "failed")]

\* the await on loadOpenCV of caller c ends
LoadOpenCVAwaited(c) ==
    /\ loader.callers[c].pc = "awaitOpenCV"
    /\ LET promise == IF loader.file = "openCVLoader.js" THEN loader.openCVPromise
                      ELSE PromiseOf(loader.cvScript, loader.cv, loader.callers[c].cvRole)
       IN  /\ promise \in {"resolved", "rejected"}
           /\ loader' = IF promise = "resolved" THEN AfterOpenCV(loader, c)
                        ELSE Caught(loader, c)

\* the browser is done with the MediaPipe script
LoadMediaPipeSettles(outcome) ==
    /\ loader.mpScript = "loading"
    /\ loader' = [loader EXCEPT !.mpScript = outcome,
                                !.FaceMesh = (outcome = "loaded")]

\* the await on loadMediaPipe of caller c ends
LoadMediaPipeAwaited(c) ==
    /\ loader.callers[c].pc = "awaitMediaPipe"
    /\ LET promise == PromiseOf(loader.mpScript, loader.FaceMesh,
                                loader.callers[c].mpRole)
       IN  /\ promise \in {"resolved", "rejected"}
           /\ loader' = IF promise = "rejected" THEN Caught(loader, c)
                        ELSE IF ~ loader.callers[c].isMounted
                             THEN [loader EXCEPT !.callers[c].pc = "left"]
                             ELSE [loader EXCEPT !.callers[c].pc = "initialize"]

\* new window.FaceMesh, setOptions and onResults; then the flags
LoadInitialize(c, built) ==
    /\ loader.callers[c].pc = "initialize"
    /\ loader' = IF ~ built THEN Caught(loader, c)
                 ELSE IF ~ loader.callers[c].isMounted
                      THEN [loader EXCEPT !.callers[c].pc = "left"]
                      ELSE [loader EXCEPT !.callers[c].pc = "loaded",
                                          !.isLoaded = TRUE,
                                          !.error = FALSE]

\* the cleanup of the effect run of caller c
LoadCleanup(c) ==
    /\ loader.file = "useFaceMesh.js"
    /\ loader.callers[c].pc # "idle"
    /\ loader.callers[c].isMounted
    /\ loader' = [loader EXCEPT !.callers[c].isMounted = FALSE, !.isLoaded = FALSE]

LoaderNext ==
    \/ \E c \in Callers : LoadCall(c) /\ UNCHANGED <<engine, recorder, camera, cameraEffect>>
    \/ \E outcome \in ScriptStates \ {"loading"} :
           LoadScriptSettles(outcome) /\ UNCHANGED <<engine, recorder, camera, cameraEffect>>
    \/ LoadCvReady /\ UNCHANGED <<engine, recorder, camera, cameraEffect>>
    \/ LoadPromiseSettles /\ UNCHANGED <<engine, recorder, camera, cameraEffect>>
    \/ \E c \in Callers :
           LoadOpenCVAwaited(c) /\ UNCHANGED <<engine, recorder, camera, cameraEffect>>
    \/ \E outcome \in ScriptStates \ {"loading"} :
           LoadMediaPipeSettles(outcome) /\ UNCHANGED <<engine, recorder, camera, cameraEffect>>
    \/ \E c \in Callers :
           LoadMediaPipeAwaited(c) /\ UNCHANGED <<engine, recorder, camera, cameraEffect>>
    \/ \E c \in Callers, built \in BOOLEAN :
           LoadInitialize(c, built) /\ UNCHANGED <<engine, recorder, camera, cameraEffect>>
    \/ \E c \in Callers : LoadCleanup(c) /\ UNCHANGED <<engine, recorder, camera, cameraEffect>>

LoaderSpec == LoaderInit /\ [][LoaderNext]_vars

\* the browser, the timers and the awaits keep going
LoaderFairSpec == LoaderSpec /\ WF_vars(LoaderNext)

C30_LoadingSettles ==
    \A c \in Callers :
        (loader.file = "useFaceMesh.js" /\ loader.callers[c].pc # "idle")
            ~> (loader.callers[c].pc \in {"loaded", "error", "left"})

====
